---------------------------- MODULE Spec2Model ----------------------------
(***************************************************************************)
(* Model of the build pipeline of prishas-precious-projectiles:            *)
(*   scripts/generate-ammo.mjs   generate-and-merge of ammunition items    *)
(*   scripts/build-ammo.mjs      batch generation without merge            *)
(*   scripts/pack-compendium.mjs / extract-compendium.mjs  store adapter   *)
(*                                                                         *)
(* Text is a sequence of one-character strings.  A storage key such as     *)
(* `!items!<id>` is the pair <<prefix, id>>; startsWith(prefix) reads the  *)
(* first component.  A JavaScript object is a function from its property  *)
(* names to values, so a missing property is a name outside the DOMAIN.    *)
(* An id is a pair <<origin, number>>; null is the pair <<"null", 0>>, and *)
(* 0 stands for every falsy time stamp (0, null, undefined).               *)
(***************************************************************************)
EXTENDS Integers, Sequences, FiniteSets, TLC

(***************************************************************************)
(* Bounds of the model.                                                    *)
(***************************************************************************)
MaxRuns == 2

(***************************************************************************)
(* Characters and the regular-expression classes the scripts use.          *)
(***************************************************************************)
LowerLetters ==
  {"a","b","c","d","e","f","g","h","i","j","k","l","m",
   "n","o","p","q","r","s","t","u","v","w","x","y","z"}

Digits == {"0","1","2","3","4","5","6","7","8","9"}

Whitespace == {" ", "\t", "\n"}

LowerOf ==
  [c \in {"A","B","C","D","E","F","G","H","I","J","K","L","M",
          "N","O","P","Q","R","S","T","U","V","W","X","Y","Z"} |->
     CASE c = "A" -> "a" [] c = "B" -> "b" [] c = "C" -> "c" [] c = "D" -> "d"
       [] c = "E" -> "e" [] c = "F" -> "f" [] c = "G" -> "g" [] c = "H" -> "h"
       [] c = "I" -> "i" [] c = "J" -> "j" [] c = "K" -> "k" [] c = "L" -> "l"
       [] c = "M" -> "m" [] c = "N" -> "n" [] c = "O" -> "o" [] c = "P" -> "p"
       [] c = "Q" -> "q" [] c = "R" -> "r" [] c = "S" -> "s" [] c = "T" -> "t"
       [] c = "U" -> "u" [] c = "V" -> "v" [] c = "W" -> "w" [] c = "X" -> "x"
       [] c = "Y" -> "y" [] c = "Z" -> "z"]

\* String.prototype.toLowerCase
toLowerCase(text) ==
  [i \in 1..Len(text) |-> IF text[i] \in DOMAIN LowerOf THEN LowerOf[text[i]] ELSE text[i]]

\* String.prototype.toUpperCase
toUpperCase(text) ==
  [i \in 1..Len(text) |->
     IF \E c \in DOMAIN LowerOf : LowerOf[c] = text[i]
     THEN CHOOSE c \in DOMAIN LowerOf : LowerOf[c] = text[i]
     ELSE text[i]]

\* toSentenceCase: text.charAt(0).toUpperCase() + text.slice(1).toLowerCase()
toSentenceCase(text) ==
  IF text = <<>> THEN text
  ELSE toUpperCase(<<Head(text)>>) \o toLowerCase(Tail(text))

\* text.replace(/[^class]/g, ''): keep the characters of the class
RECURSIVE KeepOnly(_, _)
KeepOnly(text, class) ==
  IF text = <<>> THEN <<>>
  ELSE (IF Head(text) \in class THEN <<Head(text)>> ELSE <<>>) \o KeepOnly(Tail(text), class)

\* text.replace(/[class]+/g, rep): every maximal run of class characters becomes rep
RECURSIVE ReplaceRuns(_, _, _)
ReplaceRuns(text, class, rep) ==
  IF text = <<>> THEN <<>>
  ELSE IF Head(text) \in class
       THEN IF Len(text) > 1 /\ text[2] \in class
            THEN ReplaceRuns(Tail(text), class, rep)
            ELSE rep \o ReplaceRuns(Tail(text), class, rep)
       ELSE <<Head(text)>> \o ReplaceRuns(Tail(text), class, rep)

\* String.prototype.trim
RECURSIVE TrimLeft(_)
TrimLeft(text) ==
  IF text # <<>> /\ Head(text) \in Whitespace THEN TrimLeft(Tail(text)) ELSE text

RECURSIVE TrimRight(_)
TrimRight(text) ==
  IF text # <<>> /\ text[Len(text)] \in Whitespace
  THEN TrimRight(SubSeq(text, 1, Len(text) - 1))
  ELSE text

trim(text) == TrimRight(TrimLeft(text))

\* the character U+0060, which a TLA+ string cannot hold
Backquote == "grave"

\* What String.prototype.replace inserts for the replacement string value at a
\* match: $$ is a dollar sign, $& the matched text, $` the text before the
\* match, $' the text after it; the pattern has no capture group, so any
\* other $ stands for itself.
RECURSIVE GetSubstitution(_, _, _, _)
GetSubstitution(value, matched, before, after) ==
  IF value = <<>> THEN <<>>
  ELSE IF Head(value) = "$" /\ Len(value) > 1 /\ value[2] \in {"$", "&", Backquote, "'"}
       THEN (CASE value[2] = "$" -> <<"$">>
               [] value[2] = "&" -> matched
               [] value[2] = Backquote -> before
               [] value[2] = "'" -> after)
            \o GetSubstitution(SubSeq(value, 3, Len(value)), matched, before, after)
       ELSE <<Head(value)>> \o GetSubstitution(Tail(value), matched, before, after)

\* the matches from position pos of text on
RECURSIVE ReplaceFrom(_, _, _, _)
ReplaceFrom(text, pos, key, value) ==
  IF Len(text) - pos + 1 < Len(key) THEN SubSeq(text, pos, Len(text))
  ELSE IF SubSeq(text, pos, pos + Len(key) - 1) = key
       THEN GetSubstitution(value, key, SubSeq(text, 1, pos - 1),
                            SubSeq(text, pos + Len(key), Len(text)))
            \o ReplaceFrom(text, pos + Len(key), key, value)
       ELSE <<text[pos]>> \o ReplaceFrom(text, pos + 1, key, value)

\* text.replace(new RegExp(escaped key, 'g'), value): the key is matched literally,
\* left to right, without overlap; the value is a replacement string
ReplaceAll(text, key, value) == ReplaceFrom(text, 1, key, value)

\* length of the whitespace run at the head of text
RECURSIVE RunLength(_)
RunLength(text) ==
  IF text # <<>> /\ Head(text) \in Whitespace THEN 1 + RunLength(Tail(text)) ELSE 0

\* text.replace(/\s+\./g, '.'): a whitespace run is dropped when a period follows it
RECURSIVE RemoveSpaceBeforePeriod(_)
RemoveSpaceBeforePeriod(text) ==
  IF text = <<>> THEN <<>>
  ELSE LET n == RunLength(text)
       IN IF n = 0
          THEN <<Head(text)>> \o RemoveSpaceBeforePeriod(Tail(text))
          ELSE IF Len(text) > n /\ text[n + 1] = "."
               THEN RemoveSpaceBeforePeriod(SubSeq(text, n + 1, Len(text)))
               ELSE SubSeq(text, 1, n) \o RemoveSpaceBeforePeriod(SubSeq(text, n + 1, Len(text)))

\* cleanWhitespace of generate-ammo.mjs
cleanWhitespace(text) ==
  IF text = <<>> THEN text
  ELSE trim(ReplaceRuns(RemoveSpaceBeforePeriod(text), Whitespace, <<" ">>))

\* toSlug of generate-ammo.mjs
toSlug(text) ==
  IF text = <<>> THEN text
  ELSE trim(ReplaceRuns(ReplaceRuns(KeepOnly(toLowerCase(text),
                                             LowerLetters \cup Digits \cup Whitespace \cup {"-"}),
                                    Whitespace, <<"-">>),
                        {"-"}, <<"-">>))

\* text.replace(/^-+|-+$/g, '')
RECURSIVE TrimHyphensLeft(_)
TrimHyphensLeft(text) ==
  IF text # <<>> /\ Head(text) = "-" THEN TrimHyphensLeft(Tail(text)) ELSE text

RECURSIVE TrimHyphensRight(_)
TrimHyphensRight(text) ==
  IF text # <<>> /\ text[Len(text)] = "-"
  THEN TrimHyphensRight(SubSeq(text, 1, Len(text) - 1))
  ELSE text

\* toSlug of build-ammo.mjs: \w is [A-Za-z0-9_], and the text is lowercase by then
toSlugBuild(text) ==
  IF text = <<>> THEN text
  ELSE TrimHyphensRight(TrimHyphensLeft(
         ReplaceRuns(KeepOnly(toLowerCase(text),
                              LowerLetters \cup Digits \cup {"_"} \cup Whitespace \cup {"-"}),
                     Whitespace \cup {"_", "-"}, <<"-">>)))


(***************************************************************************)
(* Configuration tables (src/ammunition-types.yml, weapon-materials.yml),  *)
(* read by loadYamlData.  A table is a function from names to entries; an  *)
(* unknown name is a name outside its DOMAIN.                              *)
(***************************************************************************)
TypeA == <<"A">>
TypeB == <<"B">>
TypeX == <<"X">>
MatS == <<"S">>
MatC == <<"C">>
MatM == <<"M">>
GradeL == <<"L","-","G">>
GradeH == <<"H","-","G">>
GradeZ == <<"Z">>
FolderF == <<"F">>

\* "{material} {name}": a title template that leaves the grade out
ShortTitle ==
  <<"{","m","a","t","e","r","i","a","l","}"," ","{","n","a","m","e","}">>

\* ammunitionTypes of loadYamlData: A is filed in folder F; B has no folder
\* and a title template of its own
ammoConfigs ==
  (TypeA :> [folder |-> FolderF]) @@ (TypeB :> [title_template |-> ShortTitle])

\* weaponMaterials of loadYamlData: material C has no low grade
weaponMaterials ==
  (MatS :> [grades |-> (GradeL :> [level |-> 2, limit |-> <<>>]) @@
                       (GradeH :> [level |-> 15, limit |-> <<>>])]) @@
  (MatC :> [grades |-> (GradeH :> [level |-> 16, limit |-> <<>>])])

\* "{material} {name} ({grade})", the default of ammoConfig.title_template
DefaultTitle ==
  <<"{","m","a","t","e","r","i","a","l","}"," ","{","n","a","m","e","}"," ",
    "(","{","g","r","a","d","e","}",")">>

\* the object literal `replacements`, in insertion order
ReplacementTable(ammunitionType, material, grade, limit, ammoType, weaponType) ==
     << << <<"{","n","a","m","e","}">>, ammunitionType >>,
        << <<"{","m","a","t","e","r","i","a","l","}">>, material >>,
        << <<"{","g","r","a","d","e","}">>, grade >>,
        << <<"{","g","r","a","d","e",".","l","i","m","i","t","}">>, limit >>,
        << <<"{","a","m","m","o","_","t","y","p","e","}">>, ammoType >>,
        << <<"{","w","e","a","p","o","n","_","t","y","p","e","}">>, weaponType >>,
        << <<"{","a","m","m","o","_","t","y","p","e",".","p","l","u","r","a","l","}">>,
           ammoType \o <<"s">> >>,
        << <<"{","w","e","a","p","o","n","_","t","y","p","e",".","p","l","u","r","a","l","}">>,
           weaponType \o <<"s">> >> >>

\* the substitution table of a triple
Replacements(ammunitionType, material, grade) ==
  LET ammoConfig == ammoConfigs[ammunitionType]
      gradeConfig == weaponMaterials[material].grades[grade]
      weaponType == IF "weapon_type" \in DOMAIN ammoConfig /\ ammoConfig.weapon_type # <<>>
                    THEN ammoConfig.weapon_type ELSE ammunitionType
      ammoType == IF "ammo_type" \in DOMAIN ammoConfig /\ ammoConfig.ammo_type # <<>>
                  THEN ammoConfig.ammo_type ELSE ammunitionType
  IN ReplacementTable(ammunitionType, material, grade, gradeConfig.limit, ammoType, weaponType)

\* the loop over Object.entries(replacements)
RECURSIVE ApplyReplacements(_, _)
ApplyReplacements(text, reps) ==
  IF reps = <<>> THEN text
  ELSE ApplyReplacements(ReplaceAll(text, Head(reps)[1], Head(reps)[2]), Tail(reps))

\* the resolved name of a triple (lines 226-249)
ResolveName(ammunitionType, material, grade) ==
  LET ammoConfig == ammoConfigs[ammunitionType]
      template == IF "title_template" \in DOMAIN ammoConfig /\ ammoConfig.title_template # <<>>
                  THEN ammoConfig.title_template ELSE DefaultTitle
  IN ApplyReplacements(template, Replacements(ammunitionType, material, grade))

KnownTriples ==
  {tr \in (DOMAIN ammoConfigs) \X (DOMAIN weaponMaterials) \X {GradeL, GradeH} :
     tr[3] \in DOMAIN weaponMaterials[tr[2]].grades}

(***************************************************************************)
(* Records.  Only the fields the scripts read or compute are kept; the     *)
(* constant fields of an item (publication, bulk, hp, ...) are left out.   *)
(***************************************************************************)
Null == <<"null", 0>>

Key(prefix, id) == <<prefix, id>>

\* record._metadata && record._metadata.key && record._metadata.key.startsWith(prefix)
HasKeyPrefix(record, prefix) ==
  /\ "_metadata" \in DOMAIN record
  /\ "key" \in DOMAIN record._metadata
  /\ record._metadata.key # Key("", "")
  /\ record._metadata.key[1] = prefix

\* record.system && record.system.slug
HasSlug(record) ==
  /\ "system" \in DOMAIN record
  /\ "slug" \in DOMAIN record.system
  /\ record.system.slug # <<>>

IsItemRecord(record) == ~HasKeyPrefix(record, "!folders!") /\ HasKeyPrefix(record, "!items!")

IsFolderRecord(record) == HasKeyPrefix(record, "!folders!")

\* the record built by generateFolder
generateFolder(folderName, folderId, t) ==
  [name |-> folderName, type |-> "Item", folder |-> Null, _id |-> folderId,
   _stats |-> [compendiumSource |-> <<>>, createdTime |-> t, modifiedTime |-> t],
   _metadata |-> [key |-> Key("!folders!", folderId)]]

\* the item object literal of generateAmmunitionItem
ItemObject(name, slug, itemId, folderId, t) ==
  [name |-> name, type |-> "consumable", system |-> [slug |-> slug], folder |-> folderId,
   _stats |-> [compendiumSource |-> <<"Item", itemId>>, createdTime |-> t, modifiedTime |-> t],
   _id |-> itemId,
   _metadata |-> [key |-> Key("!items!", itemId)]]

\* Map built by a loop of map.set(key(r), val(r)) over the records that satisfy
\* pick: the last record with a key decides its value
LastIndex(records, slugOrName, isFolder) ==
  LET hits == {i \in 1..Len(records) :
                 IF isFolder
                 THEN IsFolderRecord(records[i]) /\ records[i].name = slugOrName
                 ELSE IsItemRecord(records[i]) /\ HasSlug(records[i])
                      /\ records[i].system.slug = slugOrName}
  IN IF hits = {} THEN 0 ELSE CHOOSE i \in hits : \A j \in hits : j <= i

FolderNames(records) ==
  {records[i].name : i \in {j \in 1..Len(records) : IsFolderRecord(records[j])}}

ItemSlugs(records) ==
  {records[i].system.slug :
     i \in {j \in 1..Len(records) : IsItemRecord(records[j]) /\ HasSlug(records[j])}}

\* loadCompendiumData: folderMap (folder name -> _id) and itemSlugMap (slug -> _id)
FolderMapOf(records) ==
  [n \in FolderNames(records) |-> records[LastIndex(records, n, TRUE)]._id]

ItemSlugMapOf(records) ==
  [s \in ItemSlugs(records) |-> records[LastIndex(records, s, FALSE)]._id]

\* existingItemMap / existingFolderMap of generateAndMergeAmmunition hold
\* references into existingRecords: here the index of the referenced record
ExistingItemMapOf(records) ==
  [s \in ItemSlugs(records) |-> LastIndex(records, s, FALSE)]

ExistingFolderMapOf(records) ==
  [n \in FolderNames(records) |-> LastIndex(records, n, TRUE)]


(***************************************************************************)
(* State.                                                                  *)
(***************************************************************************)
VARIABLES
  compendium,   \* src/packs/prishas-precious-projectiles.json (never written)
  output,       \* the output file: [exists, data]
  now,          \* Date.now(); it advances from one command to the next
  minted,       \* id numbers handed to generateFoundryId so far (two per item)
  runs,         \* commands run so far
  locals,       \* the local variables of the last command when it ended
  genLog,       \* history: [tr, item] for every item the last command generated
  last,         \* history: [cmd, status, before, args] of the last command
  jsonFile,     \* the JSON file given to pack-compendium.mjs: [exists, data]
  store,        \* the LevelDB database: [exists, data], data maps key to value
  extracted,    \* the file written by extract-compendium.mjs: [exists, data]
  draws,        \* calls of Math.random so far
  packLog,      \* history: what the last pack did, record by record
  storeLast,    \* history: [cmd, status, handle] of the last pack or extract command
  inputFiles,   \* the input files given to merge-ammo.mjs: a sequence of [exists, data]
  mergeOutput,  \* the output file of merge-ammo.mjs: [exists, data]
  mergeLast,    \* history: [cmd, status] of the last merge command
  session,      \* folderMap, itemSlugMap, compendiumData, newFolders between two calls
  calls,        \* history: the calls of generateAmmunitionItem made so far
  title,        \* the title_template of an item type in ammunition-types.yml
  slugged,      \* history: [script, name, slug] of the slug a script derived
  descTemplate, \* the description_template of an item type in ammunition-types.yml
  described,    \* history: [resolved, description] of the description generated
  tableInput,   \* a title template and the values of the substitution table
  resolutions,  \* history: the names resolved from tableInput so far
  game,         \* the host's game object, as far as module.ts reads and writes it
  timers,       \* the callbacks handed to setTimeout that have not run yet
  hookLog,      \* what the module did to the settings: writes, saves, returns
  hooks         \* the hooks the host has called

genVars == <<compendium, output, minted, locals, genLog, last>>

storeVars == <<jsonFile, store, extracted, draws, packLog, storeLast>>

mergeVars == <<inputFiles, mergeOutput, mergeLast>>

callVars == <<session, calls>>

slugVars == <<title, slugged>>

descVars == <<descTemplate, described>>

resolveVars == <<tableInput, resolutions>>

hookVars == <<game, timers, hookLog, hooks>>

vars == <<genVars, storeVars, mergeVars, callVars, slugVars, descVars, resolveVars, hookVars, now, runs>>

(***************************************************************************)
(* Inputs.                                                                 *)
(***************************************************************************)
\* generateFoundryId (and uuid62.encode(uuidv4()) of build-ammo.mjs) draws a
\* random id: the id that takes number k.  The draws are taken to be
\* pairwise distinct and distinct from the ids already on file.
generateFoundryId(k) == <<"n", k>>

TypeLists == {<<TypeA, TypeA>>, <<TypeB, TypeA>>, <<TypeA, TypeB>>, <<TypeA, TypeX>>}

MaterialLists == {<<MatS>>, <<MatC, MatS>>, <<MatS, MatM>>}

GradeLists == {<<GradeH>>, <<GradeL, GradeH>>}

\* contents of the compendium file
CompendiumFolder == generateFolder(FolderF, <<"c", 0>>, 0)

CompendiumItem == ItemObject(<<"S"," ","A"," ","(","H","-","G",")">>,
                             <<"s","-","a","-","h","-","g">>, <<"c", 1>>, <<"c", 0>>, 0)

Compendiums == {<<>>, <<CompendiumFolder, CompendiumItem>>}

\* contents of the output file before the first run: absent, or an array left
\* by an earlier session or by hand
OldItem(t) == ItemObject(<<"S"," ","A"," ","(","H","-","G",")">>,
                         <<"s","-","a","-","h","-","g">>, <<"o", 1>>, Null, t)

ForeignRecord == [name |-> <<"N">>, _id |-> <<"o", 2>>]

OldFolder == generateFolder(FolderF, <<"o", 3>>, 1)

Absent == [exists |-> FALSE, data |-> <<>>]

File(data) == [exists |-> TRUE, data |-> data]

InitialOutputs == {Absent, File(<<ForeignRecord, OldItem(0), OldFolder>>)}

\* a file that is there but does not hold an array: its text is not JSON
\* ("syntax") or it parses to something else ("not-array")
Malformed(kind) == [exists |-> TRUE, data |-> <<>>, malformed |-> kind]

IsMalformed(file) == "malformed" \in DOMAIN file

\* loadExistingOutput without the parse and the Array.isArray test
loadExistingOutputLenient(file) ==
  [threw |-> FALSE, data |-> IF file.exists THEN file.data ELSE <<>>]

\* loadExistingOutput: [] for a missing file, an error for a malformed one
loadExistingOutput(file) ==
  IF ~file.exists THEN [threw |-> FALSE, data |-> <<>>]
  ELSE IF IsMalformed(file) THEN [threw |-> TRUE, data |-> <<>>]
  ELSE [threw |-> FALSE, data |-> file.data]

\* loadAmmunitionFile of merge-ammo.mjs: an error for a missing or malformed file
loadAmmunitionFile(file) ==
  IF ~file.exists \/ IsMalformed(file) THEN [threw |-> TRUE, data |-> <<>>]
  ELSE [threw |-> FALSE, data |-> file.data]

(***************************************************************************)
(* generateAmmunitionItem of generate-ammo.mjs.  rid and rfid are what     *)
(* generateFoundryId returns for the item and for an auto-created folder,  *)
(* t is Date.now().  The result carries the updated folderMap,             *)
(* compendiumData and newFolders, which the function mutates.              *)
(***************************************************************************)
\* name and slug of every triple (lines 226-258), computed once
NameTable == [tr \in KnownTriples |-> ResolveName(tr[1], tr[2], tr[3])]

SlugTable == [tr \in KnownTriples |-> toSlug(NameTable[tr])]

\* the same for build-ammo.mjs (line 184)
BuildSlugTable == [tr \in KnownTriples |-> toSlugBuild(NameTable[tr])]

KnownTriple(ammunitionType, material, grade) ==
  /\ ammunitionType \in DOMAIN ammoConfigs
  /\ material \in DOMAIN weaponMaterials
  /\ grade \in DOMAIN weaponMaterials[material].grades

\* generateAmmunitionItem without folderMap.set(folderName, folderId)
generateAmmunitionItemUnregistered(ammunitionType, material, grade, fMap, sMap, cData, nFolders, rid, rfid, t) ==
  LET ammoConfig == ammoConfigs[ammunitionType]
      name == NameTable[<<ammunitionType, material, grade>>]
      slug == SlugTable[<<ammunitionType, material, grade>>]
      isExisting == slug \in DOMAIN sMap
      itemId == IF isExisting THEN sMap[slug] ELSE rid
      hasFolder == "folder" \in DOMAIN ammoConfig /\ ammoConfig.folder # <<>>
      create == hasFolder /\ ammoConfig.folder \notin DOMAIN fMap
      folderId == IF ~hasFolder THEN Null
                  ELSE IF create THEN rfid ELSE fMap[ammoConfig.folder]
  IN [threw |-> FALSE,
      isExisting |-> isExisting,
      itemId |-> itemId,
      name |-> name,
      item |-> ItemObject(name, slug, itemId, folderId, t),
      folderMap |-> fMap,
      compendiumData |-> IF create
                         THEN Append(cData, generateFolder(ammoConfig.folder, rfid, t))
                         ELSE cData,
      newFolders |-> IF create THEN nFolders \cup {ammoConfig.folder} ELSE nFolders]

\* generateAmmunitionItem that never consults itemSlugMap
generateAmmunitionItemAlwaysMinting(ammunitionType, material, grade, fMap, sMap, cData, nFolders, rid, rfid, t) ==
  IF ~KnownTriple(ammunitionType, material, grade)
  THEN [threw |-> TRUE]
  ELSE
    LET ammoConfig == ammoConfigs[ammunitionType]
        name == NameTable[<<ammunitionType, material, grade>>]
        slug == SlugTable[<<ammunitionType, material, grade>>]
        hasFolder == "folder" \in DOMAIN ammoConfig /\ ammoConfig.folder # <<>>
        create == hasFolder /\ ammoConfig.folder \notin DOMAIN fMap
        folderId == IF ~hasFolder THEN Null
                    ELSE IF create THEN rfid ELSE fMap[ammoConfig.folder]
    IN [threw |-> FALSE,
        isExisting |-> FALSE,
        itemId |-> rid,
        name |-> name,
        item |-> ItemObject(name, slug, rid, folderId, t),
        folderMap |-> IF create THEN (ammoConfig.folder :> rfid) @@ fMap ELSE fMap,
        compendiumData |-> IF create
                           THEN Append(cData, generateFolder(ammoConfig.folder, rfid, t))
                           ELSE cData,
        newFolders |-> IF create THEN nFolders \cup {ammoConfig.folder} ELSE nFolders]

\* generateAmmunitionItem without newFolders.add(folderName)
generateAmmunitionItemUnflagged(ammunitionType, material, grade, fMap, sMap, cData, nFolders, rid, rfid, t) ==
  IF ~KnownTriple(ammunitionType, material, grade)
  THEN [threw |-> TRUE]
  ELSE
    LET ammoConfig == ammoConfigs[ammunitionType]
        name == NameTable[<<ammunitionType, material, grade>>]
        slug == SlugTable[<<ammunitionType, material, grade>>]
        isExisting == slug \in DOMAIN sMap
        itemId == IF isExisting THEN sMap[slug] ELSE rid
        hasFolder == "folder" \in DOMAIN ammoConfig /\ ammoConfig.folder # <<>>
        create == hasFolder /\ ammoConfig.folder \notin DOMAIN fMap
        folderId == IF ~hasFolder THEN Null
                    ELSE IF create THEN rfid ELSE fMap[ammoConfig.folder]
    IN [threw |-> FALSE,
        isExisting |-> isExisting,
        itemId |-> itemId,
        name |-> name,
        item |-> ItemObject(name, slug, itemId, folderId, t),
        folderMap |-> IF create THEN (ammoConfig.folder :> rfid) @@ fMap ELSE fMap,
        compendiumData |-> IF create
                           THEN Append(cData, generateFolder(ammoConfig.folder, rfid, t))
                           ELSE cData,
        newFolders |-> nFolders]

generateAmmunitionItem(ammunitionType, material, grade, fMap, sMap, cData, nFolders, rid, rfid, t) ==
  IF ~KnownTriple(ammunitionType, material, grade)
  THEN [threw |-> TRUE]
  ELSE
    LET ammoConfig == ammoConfigs[ammunitionType]
        name == NameTable[<<ammunitionType, material, grade>>]
        slug == SlugTable[<<ammunitionType, material, grade>>]
        isExisting == slug \in DOMAIN sMap
        itemId == IF isExisting THEN sMap[slug] ELSE rid
        hasFolder == "folder" \in DOMAIN ammoConfig /\ ammoConfig.folder # <<>>
        create == hasFolder /\ ammoConfig.folder \notin DOMAIN fMap
        newFolder == generateFolder(ammoConfig.folder, rfid, t)
        folderId == IF ~hasFolder THEN Null
                    ELSE IF create THEN rfid ELSE fMap[ammoConfig.folder]
    IN [threw |-> FALSE,
        isExisting |-> isExisting,
        itemId |-> itemId,
        name |-> name,
        item |-> ItemObject(name, slug, itemId, folderId, t),
        folderMap |-> IF create THEN (ammoConfig.folder :> rfid) @@ fMap ELSE fMap,
        compendiumData |-> IF create THEN Append(cData, newFolder) ELSE cData,
        newFolders |-> IF create THEN nFolders \cup {ammoConfig.folder} ELSE nFolders]

\* Object.assign(target, source): the source's own properties overwrite
ObjectAssign(target, source) ==
  [f \in DOMAIN target \cup DOMAIN source |->
     IF f \in DOMAIN source THEN source[f] ELSE target[f]]

\* existingItem._stats?.createdTime; 0 stands for a missing or falsy value
CreatedTimeOf(record) ==
  IF "_stats" \in DOMAIN record /\ "createdTime" \in DOMAIN record._stats
  THEN record._stats.createdTime ELSE 0

\* UpdateExisting that leaves the existing item's _metadata alone
UpdateExistingKeepingKey(existingItem, item) ==
  [f \in DOMAIN existingItem \cup DOMAIN item |->
     IF f \in DOMAIN item /\ ~(f = "_metadata" /\ f \in DOMAIN existingItem)
     THEN item[f] ELSE existingItem[f]]

\* the update of an existing item: Object.assign, then createdTime restored
\* when the saved value is truthy
UpdateExisting(existingItem, item) ==
  LET existingCreatedTime == CreatedTimeOf(existingItem)
      assigned == ObjectAssign(existingItem, item)
  IN IF existingCreatedTime # 0
     THEN [assigned EXCEPT !._stats.createdTime = existingCreatedTime]
     ELSE assigned

(***************************************************************************)
(* The cross product of the argument lists, item type outermost.           *)
(***************************************************************************)
NumTriples(a) == Len(a.types) * Len(a.materials) * Len(a.grades)

TripleAt(a, n) ==
  LET g == Len(a.grades)
      m == Len(a.materials)
  IN [type |-> a.types[((n - 1) \div (m * g)) + 1],
      material |-> a.materials[(((n - 1) \div g) % m) + 1],
      grade |-> a.grades[((n - 1) % g) + 1]]

\* the two validation loops at the head of generateAndMergeAmmunition
GenArgsValid(a) ==
  /\ \A i \in 1..Len(a.types) : a.types[i] \in DOMAIN ammoConfigs
  /\ \A i \in 1..Len(a.materials) : a.materials[i] \in DOMAIN weaponMaterials

EmptyMap == [x \in {} |-> 0]

NoArgs == [types |-> <<>>, materials |-> <<>>, grades |-> <<>>]

\* no database directory yet
NoDb == [exists |-> FALSE, data |-> EmptyMap]

\* handle: what became of the database handle by the time the process ended
NoStoreCommand == [cmd |-> "none", status |-> "none", handle |-> "none"]

NoMergeCommand == [cmd |-> "none", status |-> "none"]

NoPack == [ran |-> FALSE, before |-> EmptyMap, records |-> <<>>, entries |-> <<>>,
           recordCount |-> 0, errors |-> 0]

NoTableInput ==
  [template |-> <<>>, type |-> <<>>, material |-> <<>>, grade |-> <<>>, limit |-> <<>>,
   weaponType |-> <<>>]

\* game.pf2e.compendiumBrowser.settings: `entry` holds the equipment entry of
\* this module's pack, or nothing
NoSettings == [present |-> FALSE, equipment |-> FALSE, entry |-> <<>>]

NoGame ==
  [system |-> "none", pack |-> FALSE, browser |-> FALSE, initFn |-> FALSE,
   resetFn |-> FALSE, tabsInitialized |-> TRUE, settings |-> NoSettings,
   stored |-> NoSettings]

NoHooks == [count |-> 0, ready |-> FALSE, last |-> "none"]

NoDescription == [done |-> FALSE, resolved |-> <<>>, description |-> <<>>]

NoSlug == [script |-> "none", name |-> <<>>, slug |-> <<>>]

NoSession ==
  [folderMap |-> EmptyMap, itemSlugMap |-> EmptyMap, compendiumData |-> <<>>,
   newFolders |-> {}]

NoLocals ==
  [folderMap |-> EmptyMap, itemSlugMap |-> EmptyMap, compendiumData |-> <<>>,
   existingRecords |-> <<>>, existingItemMap |-> EmptyMap, existingFolderMap |-> EmptyMap,
   newRecords |-> <<>>, newFolders |-> {}, genLog |-> <<>>, minted |-> 0]

Init ==
  /\ compendium \in Compendiums
  /\ output \in InitialOutputs
  /\ now = 1
  /\ minted = 0
  /\ runs = 0
  /\ locals = NoLocals
  /\ genLog = <<>>
  /\ last = [cmd |-> "none", status |-> "none", before |-> Absent, args |-> NoArgs]
  /\ jsonFile = Absent
  /\ store = NoDb
  /\ extracted = Absent
  /\ draws = 0
  /\ packLog = NoPack
  /\ storeLast = NoStoreCommand
  /\ inputFiles = <<>>
  /\ mergeOutput = Absent
  /\ mergeLast = NoMergeCommand
  /\ session = NoSession
  /\ calls = <<>>
  /\ title = <<>>
  /\ slugged = NoSlug
  /\ descTemplate = <<>>
  /\ described = NoDescription
  /\ tableInput = NoTableInput
  /\ resolutions = <<>>
  /\ game = NoGame
  /\ timers = <<>>
  /\ hookLog = <<>>
  /\ hooks = NoHooks

(***************************************************************************)
(* generateAndMergeAmmunition                                              *)
(***************************************************************************)
\* GenLocals that starts from an empty list instead of the loaded output
GenLocalsIgnoringOutput(existing, k) ==
  [folderMap |-> FolderMapOf(compendium),
   itemSlugMap |-> ItemSlugMapOf(compendium),
   compendiumData |-> compendium,
   existingRecords |-> <<>>,
   existingItemMap |-> EmptyMap,
   existingFolderMap |-> EmptyMap,
   newRecords |-> <<>>,
   newFolders |-> {},
   genLog |-> <<>>,
   minted |-> k]

\* lines 427, 444-466: the local variables before the loop
GenLocals(existing, k) ==
  [folderMap |-> FolderMapOf(compendium),
   itemSlugMap |-> ItemSlugMapOf(compendium),
   compendiumData |-> compendium,
   existingRecords |-> existing,
   existingItemMap |-> ExistingItemMapOf(existing),
   existingFolderMap |-> ExistingFolderMapOf(existing),
   newRecords |-> <<>>,
   newFolders |-> {},
   genLog |-> <<>>,
   minted |-> k]

\* lines 472-512: the body of the innermost loop, for the triple tr at time t
GenIteration(st, tr, t) ==
  IF tr.grade \notin DOMAIN weaponMaterials[tr.material].grades
  THEN st
  ELSE
    LET result == generateAmmunitionItem(tr.type, tr.material, tr.grade, st.folderMap,
                                         st.itemSlugMap, st.compendiumData, st.newFolders,
                                         generateFoundryId(st.minted + 1),
                                         generateFoundryId(st.minted + 2), t)
        slug == result.item.system.slug
        merged == [st EXCEPT !.folderMap = result.folderMap,
                             !.compendiumData = result.compendiumData,
                             !.newFolders = result.newFolders,
                             !.genLog = Append(st.genLog, [tr |-> tr, item |-> result.item]),
                             !.minted = st.minted + 2]
    IN IF slug \in DOMAIN st.existingItemMap
       THEN [merged EXCEPT !.existingRecords[st.existingItemMap[slug]] =
               UpdateExisting(st.existingRecords[st.existingItemMap[slug]], result.item)]
       ELSE [merged EXCEPT !.newRecords = Append(st.newRecords, result.item)]

\* lines 469-515: the three nested loops, from position n of the cross product
RECURSIVE GenLoop(_, _, _, _)
GenLoop(st, a, n, t) ==
  IF n > NumTriples(a) THEN st
  ELSE GenLoop(GenIteration(st, TripleAt(a, n), t), a, n + 1, t)

\* lines 517-530: the auto-created folders that go to the output
NewFoldersList(cData, nFolders, eFolderMap) ==
  SelectSeq(cData, LAMBDA record :
    /\ IsFolderRecord(record)
    /\ record.name \in nFolders
    /\ record.name \notin DOMAIN eFolderMap)

\* AllRecords with the folders spread before the new records
AllRecordsFoldersFirst(st) ==
  st.existingRecords
    \o NewFoldersList(st.compendiumData, st.newFolders, st.existingFolderMap)
    \o st.newRecords

\* lines 532-536: what writeFileSync writes
AllRecords(st) ==
  st.existingRecords \o st.newRecords
    \o NewFoldersList(st.compendiumData, st.newFolders, st.existingFolderMap)

\* node generate-ammo.mjs <types> <materials> <grades> <output-file>
GenerateAndMerge(types, materials, grades) ==
  LET a == [types |-> types, materials |-> materials, grades |-> grades]
      loaded == loadExistingOutput(output)
      existing == loaded.data
  IN
  /\ runs < MaxRuns
  /\ runs' = runs + 1
  /\ now' = now + 1
  /\ UNCHANGED <<hookVars, resolveVars, descVars, compendium, storeVars, mergeVars, callVars, slugVars>>
  /\ IF ~GenArgsValid(a) \/ loaded.threw
     THEN /\ last' = [cmd |-> "gen", status |-> "error", before |-> output, args |-> a]
          /\ genLog' = <<>>
          /\ UNCHANGED <<output, minted, locals>>
     ELSE \E st \in {GenLoop(GenLocals(existing, minted), a, 1, now)} :
          /\ output' = File(AllRecords(st))
          /\ minted' = st.minted
          /\ locals' = st
          /\ genLog' = st.genLog
          /\ last' = [cmd |-> "gen", status |-> "ok", before |-> output, args |-> a]

(***************************************************************************)
(* build-ammo.mjs: generateMultipleAmmunitionItems                         *)
(***************************************************************************)
\* generateAmmunitionItem of build-ammo.mjs (lines 128-336): the compendium is
\* loaded by every call, and a folder missing from the index is an error
buildAmmunitionItem(ammunitionType, material, grade, rid, t) ==
  IF ~KnownTriple(ammunitionType, material, grade)
  THEN [threw |-> TRUE]
  ELSE
    LET ammoConfig == ammoConfigs[ammunitionType]
        fMap == FolderMapOf(compendium)
        sMap == ItemSlugMapOf(compendium)
        name == NameTable[<<ammunitionType, material, grade>>]
        slug == BuildSlugTable[<<ammunitionType, material, grade>>]
        isExisting == slug \in DOMAIN sMap
        itemId == IF isExisting THEN sMap[slug] ELSE rid
        hasFolder == "folder" \in DOMAIN ammoConfig /\ ammoConfig.folder # <<>>
    IN IF hasFolder /\ ammoConfig.folder \notin DOMAIN fMap
       THEN [threw |-> TRUE]
       ELSE [threw |-> FALSE,
             isExisting |-> isExisting,
             itemId |-> itemId,
             name |-> name,
             item |-> ItemObject(name, slug, itemId,
                                 IF hasFolder THEN fMap[ammoConfig.folder] ELSE Null, t)]

\* BuildArgsValid without the material/grade loop
BuildArgsValidNoGrades(a) ==
  /\ \A i \in 1..Len(a.types) : a.types[i] \in DOMAIN ammoConfigs
  /\ \A i \in 1..Len(a.materials) : a.materials[i] \in DOMAIN weaponMaterials

\* BuildArgsValid that checks the item types only
BuildArgsValidTypesOnly(a) ==
  \A i \in 1..Len(a.types) : a.types[i] \in DOMAIN ammoConfigs

\* the three validation loops at the head of generateMultipleAmmunitionItems
BuildArgsValid(a) ==
  /\ \A i \in 1..Len(a.types) : a.types[i] \in DOMAIN ammoConfigs
  /\ \A i \in 1..Len(a.materials) : a.materials[i] \in DOMAIN weaponMaterials
  /\ \A i \in 1..Len(a.materials), j \in 1..Len(a.grades) :
       a.grades[j] \in DOMAIN weaponMaterials[a.materials[i]].grades

\* lines 375-390: the body of the innermost loop; a throw is caught and logged
BuildIteration(st, tr, t) ==
  LET result == buildAmmunitionItem(tr.type, tr.material, tr.grade,
                                    generateFoundryId(st.minted + 1), t)
  IN IF result.threw
     THEN [st EXCEPT !.minted = st.minted + 1]
     ELSE [st EXCEPT !.minted = st.minted + 1,
                     !.newRecords = Append(st.newRecords, result.item),
                     !.genLog = Append(st.genLog, [tr |-> tr, item |-> result.item])]

\* BuildLoop that gives up at the first item that fails
RECURSIVE BuildLoopStopping(_, _, _, _)
BuildLoopStopping(st, a, n, t) ==
  IF n > NumTriples(a) THEN st
  ELSE LET next == BuildIteration(st, TripleAt(a, n), t)
       IN IF Len(next.newRecords) = Len(st.newRecords) THEN next
          ELSE BuildLoopStopping(next, a, n + 1, t)

\* lines 372-393
RECURSIVE BuildLoop(_, _, _, _)
BuildLoop(st, a, n, t) ==
  IF n > NumTriples(a) THEN st
  ELSE BuildLoop(BuildIteration(st, TripleAt(a, n), t), a, n + 1, t)

\* node build-ammo.mjs <types> <materials> <grades> <output-file>: the items
\* (newRecords stands for `items`) replace the content of the output file
GenerateMultiple(types, materials, grades) ==
  LET a == [types |-> types, materials |-> materials, grades |-> grades]
  IN
  /\ runs < MaxRuns
  /\ runs' = runs + 1
  /\ now' = now + 1
  /\ UNCHANGED <<hookVars, resolveVars, descVars, compendium, storeVars, mergeVars, callVars, slugVars>>
  /\ IF ~BuildArgsValid(a)
     THEN /\ last' = [cmd |-> "build", status |-> "error", before |-> output, args |-> a]
          /\ genLog' = <<>>
          /\ UNCHANGED <<output, minted, locals>>
     ELSE \E st \in {BuildLoop([NoLocals EXCEPT !.minted = minted], a, 1, now)} :
          /\ output' = File(st.newRecords)
          /\ minted' = st.minted
          /\ locals' = st
          /\ genLog' = st.genLog
          /\ last' = [cmd |-> "build", status |-> "ok", before |-> output, args |-> a]

Next ==
  \/ \E types \in TypeLists, materials \in MaterialLists, grades \in GradeLists :
       GenerateAndMerge(types, materials, grades)
  \/ \E types \in TypeLists, materials \in MaterialLists, grades \in GradeLists :
       GenerateMultiple(types, materials, grades)

Spec == Init /\ [][Next]_vars

(***************************************************************************)
(* pack-compendium.mjs and extract-compendium.mjs.  A storage key is the   *)
(* pair <<prefix, rest>> of the text prefix + rest.                        *)
(***************************************************************************)
MaxRecords == 2

NoKey == Key("", <<"", 0>>)

\* the object without one of its properties
Without(record, field) == [f \in DOMAIN record \ {field} |-> record[f]]

\* Math.random().toString(36).substr(2, 9): the id made from the k-th draw.
\* The draws are taken to be pairwise distinct.
RandomId(k) == <<"r", k>>

\* lines 98-109: the key a record is stored under
PackKey(record, rid) ==
  IF /\ "_metadata" \in DOMAIN record
     /\ "key" \in DOMAIN record._metadata
     /\ record._metadata.key # NoKey
  THEN record._metadata.key
  ELSE IF "_id" \in DOMAIN record /\ record._id # Null
       THEN Key("!items!", record._id)
       ELSE Key("!items!", rid)

\* PackKey draws from Math.random only in its last branch
PackDraws(record) ==
  IF PackKey(record, Null) = Key("!items!", Null) THEN 1 ELSE 0

\* CleanRecord that also drops the _id
CleanRecordNoId(record) == Without(Without(record, "_metadata"), "_id")

\* lines 111-113: const cleanRecord = { ...record }; delete cleanRecord._metadata
CleanRecord(record) == Without(record, "_metadata")

\* db.put(key, value)
Put(data, key, value) ==
  [k \in DOMAIN data \cup {key} |-> IF k = key THEN value ELSE data[k]]

\* JSON null as an element of the array: reading a property of it throws
NullRecord == [null |-> TRUE]

\* lines 96-128: one turn of the loop over records.  Reading _metadata of a
\* null record throws and the put of record failAt rejects: the inner handler
\* catches both
PackIteration(st, record, i, failAt) ==
  LET threw == record = NullRecord
      key == IF threw THEN NoKey ELSE PackKey(record, RandomId(st.draws + 1))
      value == IF threw THEN record ELSE CleanRecord(record)
      failed == threw \/ i = failAt
  IN [st EXCEPT
        !.draws = IF threw THEN st.draws ELSE st.draws + PackDraws(record),
        !.data = IF failed THEN st.data ELSE Put(st.data, key, value),
        !.recordCount = IF failed THEN st.recordCount ELSE st.recordCount + 1,
        !.errors = IF failed THEN st.errors + 1 ELSE st.errors,
        !.entries = Append(st.entries, [key |-> key, value |-> value, failed |-> failed])]

\* PackLoop that stops at the first failed put
RECURSIVE PackLoopAborting(_, _, _, _)
PackLoopAborting(st, records, i, failAt) ==
  IF i > Len(records) \/ (failAt # 0 /\ i > failAt) THEN st
  ELSE PackLoopAborting(PackIteration(st, records[i], i, failAt), records, i + 1, failAt)

RECURSIVE PackLoop(_, _, _, _)
PackLoop(st, records, i, failAt) ==
  IF i > Len(records) THEN st
  ELSE PackLoop(PackIteration(st, records[i], i, failAt), records, i + 1, failAt)

\* lines 138-154 of pack-compendium.mjs: records.forEach reads record.type,
\* which throws for a null record
StatisticsThrow(records) == \E i \in 1..Len(records) : records[i] = NullRecord

\* the outer handlers of packLevelDB and extractLevelDB: catch calls
\* process.exit(1), which ends the process before the finally block can close
\* the handle; without a throw the finally block closes it
HandleAtExit(opened, threw) ==
  IF ~opened THEN "none" ELSE IF threw THEN "open" ELSE "closed"

\* node pack-compendium.mjs <json-file> <db-path>
packLevelDB(failAt) ==
  /\ runs < MaxRuns
  /\ runs' = runs + 1
  /\ now' = now + 1
  /\ UNCHANGED <<hookVars, resolveVars, descVars, genVars, mergeVars, callVars, slugVars, jsonFile, extracted>>
  /\ IF ~jsonFile.exists
     THEN /\ storeLast' = [cmd |-> "pack", status |-> "error",
                           handle |-> HandleAtExit(FALSE, TRUE)]
          /\ packLog' = NoPack
          /\ UNCHANGED <<store, draws>>
     ELSE /\ failAt <= Len(jsonFile.data)
          /\ \E st \in {PackLoop([data |-> store.data, draws |-> draws, entries |-> <<>>,
                                  recordCount |-> 0, errors |-> 0],
                                 jsonFile.data, 1, failAt)} :
               /\ store' = [exists |-> TRUE, data |-> st.data]
               /\ draws' = st.draws
               /\ packLog' = [ran |-> TRUE, before |-> store.data, records |-> jsonFile.data,
                              entries |-> st.entries, recordCount |-> st.recordCount,
                              errors |-> st.errors]
               /\ storeLast' =
                    [cmd |-> "pack",
                     status |-> IF StatisticsThrow(jsonFile.data) THEN "error" ELSE "ok",
                     handle |-> HandleAtExit(TRUE, StatisticsThrow(jsonFile.data))]

\* IsInternalKey that skips no key
IsInternalKeyNever(key) == FALSE

\* line 95 of extract-compendium.mjs: the keys the loop skips
IsInternalKey(key) ==
  \/ key[1] = "_"
  \/ key[1] \in {"CURRENT", "LOCK", "LOG"} /\ key[2] = <<"", 0>>

\* db.iterator() yields the entries in the byte order of their keys
PrefixOrder == <<"!folders!", "!items!", "CURRENT", "LOCK", "LOG", "_">>

IdOrder == <<"", "c", "f", "i", "n", "o", "r">>

RankIn(order, x) == CHOOSE i \in 1..Len(order) : order[i] = x

KeyBefore(a, b) ==
  LET pa == RankIn(PrefixOrder, a[1])
      pb == RankIn(PrefixOrder, b[1])
      ta == RankIn(IdOrder, a[2][1])
      tb == RankIn(IdOrder, b[2][1])
  IN \/ pa < pb
     \/ pa = pb /\ ta < tb
     \/ pa = pb /\ ta = tb /\ a[2][2] <= b[2][2]

RECURSIVE IterationOrder(_)
IterationOrder(keys) ==
  IF keys = {} THEN <<>>
  ELSE LET first == CHOOSE k \in keys : \A o \in keys : KeyBefore(k, o)
       IN <<first>> \o IterationOrder(keys \ {first})

\* lines 103-108: { ...value, _metadata: { key: key } }
ExtractRecord(key, value) ==
  [f \in DOMAIN value \cup {"_metadata"} |->
     IF f = "_metadata" THEN [key |-> key] ELSE value[f]]

\* lines 89-121: the records collected by the loop over the iterator
ExtractRecords(data) ==
  LET keys == SelectSeq(IterationOrder(DOMAIN data), LAMBDA k : ~IsInternalKey(k))
  IN [i \in 1..Len(keys) |-> ExtractRecord(keys[i], data[keys[i]])]

\* node extract-compendium.mjs <db-path> <output-file>
\* outcome: "ok", or the failure the environment raises: "read" when the
\* iterator rejects (line 90), "write" when writeFileSync throws (line 139)
extractLevelDB(outcome) ==
  /\ runs < MaxRuns
  /\ runs' = runs + 1
  /\ now' = now + 1
  /\ UNCHANGED <<hookVars, resolveVars, descVars, genVars, mergeVars, callVars, slugVars, jsonFile, store, draws, packLog>>
  /\ IF ~store.exists
     THEN /\ storeLast' = [cmd |-> "extract", status |-> "error",
                           handle |-> HandleAtExit(FALSE, TRUE)]
          /\ UNCHANGED extracted
     ELSE IF outcome # "ok"
     THEN /\ storeLast' = [cmd |-> "extract", status |-> "error",
                           handle |-> HandleAtExit(TRUE, TRUE)]
          /\ UNCHANGED extracted
     ELSE /\ extracted' = File(ExtractRecords(store.data))
          /\ storeLast' = [cmd |-> "extract", status |-> "ok",
                           handle |-> HandleAtExit(TRUE, FALSE)]

\* the records a JSON file given to the packer may hold
PackItem == ItemObject(<<"a">>, <<"a">>, <<"i", 1>>, Null, 1)

PackItemNoMeta == Without(ItemObject(<<"b">>, <<"b">>, <<"i", 2>>, Null, 1), "_metadata")

PackFolder == generateFolder(FolderF, <<"f", 1>>, 1)

PackFolderNoMeta == Without(generateFolder(FolderF, <<"f", 2>>, 1), "_metadata")

PackAnonymous == [name |-> <<"x">>, type |-> "consumable"]

\* another record with the _id of PackItem
PackTwin == Without(ItemObject(<<"c">>, <<"c">>, <<"i", 1>>, Null, 1), "_metadata")

\* a record written by build-ammo.mjs (line 786): _metadata holds extractedAt too
PackStamped ==
  [ItemObject(<<"d">>, <<"d">>, <<"i", 3>>, Null, 1)
     EXCEPT !._metadata = [key |-> Key("!items!", <<"i", 3>>), extractedAt |-> 1]]

\* a record whose key starts with an underscore
PackUnderscore ==
  [ItemObject(<<"e">>, <<"e">>, <<"i", 4>>, Null, 1)
     EXCEPT !._metadata = [key |-> Key("_", <<"i", 4>>)]]

PackPool == {PackItem, PackItemNoMeta, PackFolder, PackFolderNoMeta, PackAnonymous,
             PackTwin, PackStamped, PackUnderscore, NullRecord}

Collections == UNION {[1..n -> PackPool] : n \in 0..MaxRecords}

\* the database before the first command: none, or one left by an earlier session
OldDb ==
  [exists |-> TRUE,
   data |-> (Key("!items!", <<"o", 9>>) :> [name |-> <<"N">>, _id |-> <<"o", 9>>])
            @@ (Key("LOG", <<"", 0>>) :> [name |-> <<"L">>])]

ExtractOutcomes == {"ok", "read", "write"}

StoreInit ==
  /\ compendium = <<>>
  /\ output = Absent
  /\ now = 1
  /\ minted = 0
  /\ runs = 0
  /\ locals = NoLocals
  /\ genLog = <<>>
  /\ last = [cmd |-> "none", status |-> "none", before |-> Absent, args |-> NoArgs]
  /\ jsonFile \in {Absent} \cup {File(c) : c \in Collections}
  /\ store \in {NoDb, OldDb}
  /\ extracted = Absent
  /\ draws = 0
  /\ packLog = NoPack
  /\ storeLast = NoStoreCommand
  /\ inputFiles = <<>>
  /\ mergeOutput = Absent
  /\ mergeLast = NoMergeCommand
  /\ session = NoSession
  /\ calls = <<>>
  /\ title = <<>>
  /\ slugged = NoSlug
  /\ descTemplate = <<>>
  /\ described = NoDescription
  /\ tableInput = NoTableInput
  /\ resolutions = <<>>
  /\ game = NoGame
  /\ timers = <<>>
  /\ hookLog = <<>>
  /\ hooks = NoHooks

StoreNext ==
  \/ \E failAt \in 0..MaxRecords : packLevelDB(failAt)
  \/ \E outcome \in ExtractOutcomes : extractLevelDB(outcome)

StoreSpec == StoreInit /\ [][StoreNext]_vars

(***************************************************************************)
(* merge-ammo.mjs                                                          *)
(***************************************************************************)
\* itemMap is a Map, which keeps its keys in insertion order: the sequence of
\* its entries [key, item].  The key of an item with a slug is the slug, the
\* key of the k-th item without one is `no-slug-${Date.now()}-${Math.random()}`
\* (the draws are taken to be pairwise distinct).
SlugKey(slug) == <<"slug", slug, 0>>

\* NoSlugKey that gives every item without a slug the same key
NoSlugKeyShared(k) == <<"no-slug", <<>>, 0>>

NoSlugKey(k) == <<"no-slug", <<>>, k>>

MapIndex(map, key) ==
  LET hits == {i \in 1..Len(map) : map[i].key = key}
  IN IF hits = {} THEN 0 ELSE CHOOSE i \in hits : TRUE

\* MapSet that keeps the item a key already has
MapSetKeepingFirst(map, key, item) ==
  IF MapIndex(map, key) = 0
  THEN Append(map, [key |-> key, item |-> item])
  ELSE map

MapSet(map, key, item) ==
  IF MapIndex(map, key) = 0
  THEN Append(map, [key |-> key, item |-> item])
  ELSE [map EXCEPT ![MapIndex(map, key)].item = item]

MapDelete(map, key) == SelectSeq(map, LAMBDA e : e.key # key)

\* lines 117-132: an item of an earlier file goes into itemMap
PrepareItem(st, item) ==
  IF HasSlug(item)
  THEN [st EXCEPT !.itemMap = MapSet(st.itemMap, SlugKey(item.system.slug), item)]
  ELSE [st EXCEPT !.itemMap = MapSet(st.itemMap, NoSlugKey(st.draws + 1), item),
                  !.draws = st.draws + 1]

\* lines 111-133: the earlier files in order, each one item by item
RECURSIVE PrepareLoop(_, _, _, _)
PrepareLoop(st, files, f, i) ==
  IF f >= Len(files) THEN st
  ELSE IF i > Len(files[f].data) THEN PrepareLoop(st, files, f + 1, 1)
  ELSE PrepareLoop(PrepareItem(st, files[f].data[i]), files, f, i + 1)

\* lines 151-152: replacement._stats = replacement._stats || {};
\* replacement._stats.createdTime = t
WithCreatedTime(replacement, t) ==
  LET stats == IF "_stats" \in DOMAIN replacement THEN replacement._stats ELSE EmptyMap
  IN [f \in DOMAIN replacement \cup {"_stats"} |->
        IF f = "_stats"
        THEN [g \in DOMAIN stats \cup {"createdTime"} |->
                IF g = "createdTime" THEN t ELSE stats[g]]
        ELSE replacement[f]]

\* OrderItem that leaves the replacement in itemMap
OrderItemKeepingEntry(st, item) ==
  IF HasSlug(item) /\ MapIndex(st.itemMap, SlugKey(item.system.slug)) # 0
  THEN [st EXCEPT
          !.orderedItems =
             Append(st.orderedItems,
                    st.itemMap[MapIndex(st.itemMap, SlugKey(item.system.slug))].item)]
  ELSE [st EXCEPT !.orderedItems = Append(st.orderedItems, item)]

\* lines 140-173: an item of the rightmost file takes its place in orderedItems
OrderItem(st, item) ==
  IF HasSlug(item) /\ MapIndex(st.itemMap, SlugKey(item.system.slug)) # 0
  THEN LET key == SlugKey(item.system.slug)
           replacement == st.itemMap[MapIndex(st.itemMap, key)].item
           restored == IF CreatedTimeOf(item) # 0
                       THEN WithCreatedTime(replacement, CreatedTimeOf(item))
                       ELSE replacement
       IN [st EXCEPT !.orderedItems = Append(st.orderedItems, restored),
                     !.itemMap = MapDelete(st.itemMap, key)]
  ELSE [st EXCEPT !.orderedItems = Append(st.orderedItems, item)]

RECURSIVE OrderLoop(_, _, _)
OrderLoop(st, rightmostFile, i) ==
  IF i > Len(rightmostFile) THEN st
  ELSE OrderLoop(OrderItem(st, rightmostFile[i]), rightmostFile, i + 1)

\* lines 175-187: what is left in itemMap is appended in the order of the map
Remaining(itemMap) == [i \in 1..Len(itemMap) |-> itemMap[i].item]

\* lines 97-190: the array written to the output file
MergeResult(files) ==
  LET prepared == PrepareLoop([itemMap |-> <<>>, draws |-> 0, orderedItems |-> <<>>],
                              files, 1, 1)
      ordered == OrderLoop(prepared, files[Len(files)].data, 1)
  IN ordered.orderedItems \o Remaining(ordered.itemMap)

\* node merge-ammo.mjs <input-file1> [input-file2] ... <output-file>
mergeAmmunitionFiles ==
  /\ runs < MaxRuns
  /\ runs' = runs + 1
  /\ now' = now + 1
  /\ UNCHANGED <<hookVars, resolveVars, descVars, genVars, storeVars, callVars, slugVars, inputFiles>>
  /\ IF Len(inputFiles) = 0 \/ \E f \in 1..Len(inputFiles) : loadAmmunitionFile(inputFiles[f]).threw
     THEN /\ mergeLast' = [cmd |-> "merge", status |-> "error"]
          /\ UNCHANGED mergeOutput
     ELSE /\ mergeOutput' = File(MergeResult(inputFiles))
          /\ mergeLast' = [cmd |-> "merge", status |-> "ok"]

\* the items an input file may hold
MergeItem(slug, id, t) ==
  [name |-> id, system |-> [slug |-> slug], _id |-> id,
   _stats |-> [createdTime |-> t, modifiedTime |-> t]]

EarlyA == MergeItem(<<"a">>, <<"e", 1>>, 5)

BaseA == MergeItem(<<"a">>, <<"b", 1>>, 2)

\* an item whose createdTime is falsy
BaseA0 == MergeItem(<<"a">>, <<"b", 2>>, 0)

OtherB == MergeItem(<<"b">>, <<"e", 2>>, 3)

NoSlugItem == [name |-> <<"n">>, _id |-> <<"e", 3>>]

MergePool == {EarlyA, BaseA, BaseA0, OtherB, NoSlugItem}

MergeCollections == UNION {[1..n -> MergePool] : n \in 0..MaxRecords}

ShortCollections == {c \in MergeCollections : Len(c) <= 1}

\* two input files, one of them possibly missing, or three short ones
InputFileLists ==
  {<<File(e), File(b)>> : e \in MergeCollections, b \in MergeCollections}
    \cup {<<Absent, File(b)>> : b \in ShortCollections}
    \cup {<<File(d), File(e), File(b)>> :
            d \in ShortCollections, e \in ShortCollections, b \in ShortCollections}

MergeInit ==
  /\ compendium = <<>>
  /\ output = Absent
  /\ now = 1
  /\ minted = 0
  /\ runs = 0
  /\ locals = NoLocals
  /\ genLog = <<>>
  /\ last = [cmd |-> "none", status |-> "none", before |-> Absent, args |-> NoArgs]
  /\ jsonFile = Absent
  /\ store = NoDb
  /\ extracted = Absent
  /\ draws = 0
  /\ packLog = NoPack
  /\ storeLast = NoStoreCommand
  /\ inputFiles \in InputFileLists
  /\ mergeOutput = Absent
  /\ mergeLast = NoMergeCommand
  /\ session = NoSession
  /\ calls = <<>>
  /\ title = <<>>
  /\ slugged = NoSlug
  /\ descTemplate = <<>>
  /\ described = NoDescription
  /\ tableInput = NoTableInput
  /\ resolutions = <<>>
  /\ game = NoGame
  /\ timers = <<>>
  /\ hookLog = <<>>
  /\ hooks = NoHooks

MergeNext == mergeAmmunitionFiles

MergeSpec == MergeInit /\ [][MergeNext]_vars

(***************************************************************************)
(* generateAmmunitionItem, call by call.  One run of generate-ammo.mjs     *)
(* loads the compendium into folderMap and itemSlugMap and then calls the  *)
(* function once per triple; the maps, compendiumData and newFolders are   *)
(* shared by the calls.  Here the triples come in any order and the value  *)
(* generateFoundryId returns is any value of DrawPool: the function draws  *)
(* 16 random characters and compares the result with nothing, so a value   *)
(* that is already in use is one of its outcomes.                          *)
(***************************************************************************)
MaxCalls == 2

\* values of generateFoundryId(): the id of the compendium's item, the id of
\* the compendium's folder, and two ids nobody holds
DrawPool == {<<"c", 1>>, generateFoundryId(1), generateFoundryId(2)}

FolderDrawPool == {<<"c", 0>>, generateFoundryId(3)}

CallTriples == KnownTriples \cup {<<TypeX, MatS, GradeH>>}

\* lines 427, 444-446 of generateAndMergeAmmunition
SessionOf(records) ==
  [folderMap |-> FolderMapOf(records), itemSlugMap |-> ItemSlugMapOf(records),
   compendiumData |-> records, newFolders |-> {}]

\* one call generateAmmunitionItem(type, material, grade, folderMap, itemSlugMap,
\* compendiumData, newFolders); rid and rfid are what generateFoundryId would return
CallGenerateAmmunitionItem(tr, rid, rfid) ==
  LET result == generateAmmunitionItem(tr[1], tr[2], tr[3], session.folderMap,
                                       session.itemSlugMap, session.compendiumData,
                                       session.newFolders, rid, rfid, now)
      minting == ~result.threw /\ ~result.isExisting
      creating == ~result.threw /\ result.newFolders # session.newFolders
  IN
  /\ Len(calls) < MaxCalls
  /\ calls' = Append(calls, [tr |-> tr, before |-> session, result |-> result,
                            drawn |-> IF minting THEN rid ELSE Null,
                            folderDrawn |-> IF creating THEN rfid ELSE Null])
  /\ session' = IF result.threw THEN session
                ELSE [session EXCEPT !.folderMap = result.folderMap,
                                     !.compendiumData = result.compendiumData,
                                     !.newFolders = result.newFolders]
  /\ UNCHANGED <<hookVars, resolveVars, descVars, genVars, storeVars, mergeVars, slugVars, now, runs>>

CallInit ==
  /\ compendium \in Compendiums
  /\ output = Absent
  /\ now = 1
  /\ minted = 0
  /\ runs = 0
  /\ locals = NoLocals
  /\ genLog = <<>>
  /\ last = [cmd |-> "none", status |-> "none", before |-> Absent, args |-> NoArgs]
  /\ jsonFile = Absent
  /\ store = NoDb
  /\ extracted = Absent
  /\ draws = 0
  /\ packLog = NoPack
  /\ storeLast = NoStoreCommand
  /\ inputFiles = <<>>
  /\ mergeOutput = Absent
  /\ mergeLast = NoMergeCommand
  /\ session = SessionOf(compendium)
  /\ calls = <<>>
  /\ title = <<>>
  /\ slugged = NoSlug
  /\ descTemplate = <<>>
  /\ described = NoDescription
  /\ tableInput = NoTableInput
  /\ resolutions = <<>>
  /\ game = NoGame
  /\ timers = <<>>
  /\ hookLog = <<>>
  /\ hooks = NoHooks

CallNext ==
  \E tr \in CallTriples, rid \in DrawPool, rfid \in FolderDrawPool :
    CallGenerateAmmunitionItem(tr, rid, rfid)

CallSpec == CallInit /\ [][CallNext]_vars


(***************************************************************************)
(* From title template to slug.  The title template of an item type is any *)
(* short text over SlugChars; the name is resolved for one triple as in    *)
(* lines 226-249 and handed to the toSlug of one of the two scripts.       *)
(***************************************************************************)
MaxLen == 3

\* a letter, a digit, a space, a hyphen, a punctuation mark, an underscore
SlugChars == {"A", "1", " ", "-", "(", "_"}

Titles == UNION {[1..n -> SlugChars] : n \in 0..MaxLen}

Scripts == {"generate-ammo", "build-ammo"}

\* let name = ammoConfig.title_template || "{material} {name} ({grade})", then
\* the replacements
ResolveTitle(template, ammunitionType, material, grade) ==
  ApplyReplacements(IF template # <<>> THEN template ELSE DefaultTitle,
                    Replacements(ammunitionType, material, grade))

\* const slug = toSlug(name) in generateAmmunitionItem of the script
Slugify(script) ==
  LET name == ResolveTitle(title, TypeA, MatS, GradeH)
  IN
  /\ slugged.script = "none"
  /\ slugged' = [script |-> script, name |-> name,
                 slug |-> IF script = "generate-ammo" THEN toSlug(name)
                          ELSE toSlugBuild(name)]
  /\ UNCHANGED <<hookVars, resolveVars, descVars, genVars, storeVars, mergeVars, callVars, title, now, runs>>

SlugInit ==
  /\ compendium = <<>>
  /\ output = Absent
  /\ now = 1
  /\ minted = 0
  /\ runs = 0
  /\ locals = NoLocals
  /\ genLog = <<>>
  /\ last = [cmd |-> "none", status |-> "none", before |-> Absent, args |-> NoArgs]
  /\ jsonFile = Absent
  /\ store = NoDb
  /\ extracted = Absent
  /\ draws = 0
  /\ packLog = NoPack
  /\ storeLast = NoStoreCommand
  /\ inputFiles = <<>>
  /\ mergeOutput = Absent
  /\ mergeLast = NoMergeCommand
  /\ session = NoSession
  /\ calls = <<>>
  /\ title \in Titles
  /\ slugged = NoSlug
  /\ descTemplate = <<>>
  /\ described = NoDescription
  /\ tableInput = NoTableInput
  /\ resolutions = <<>>
  /\ game = NoGame
  /\ timers = <<>>
  /\ hookLog = <<>>
  /\ hooks = NoHooks

SlugNext == \E script \in Scripts : Slugify(script)

SlugSpec == SlugInit /\ [][SlugNext]_vars


(***************************************************************************)
(* From description template to description (lines 228, 246-255).  The     *)
(* template is any short text over DescChars, alone or after the           *)
(* placeholder {grade.limit}, whose value is empty for the grades of the   *)
(* model.                                                                  *)
(***************************************************************************)
\* a lowercase letter, an uppercase letter, a space, a period
DescChars == {"a", "B", " ", "."}

GradeLimit == <<"{","g","r","a","d","e",".","l","i","m","i","t","}">>

DescTexts == UNION {[1..n -> DescChars] : n \in 0..MaxLen}

DescTemplates == DescTexts \cup {GradeLimit \o text : text \in DescTexts}

\* "Standard ammunition.", the default of ammoConfig.description_template
DefaultDescription ==
  <<"S","t","a","n","d","a","r","d"," ","a","m","m","u","n","i","t","i","o","n",".">>

\* let description = ammoConfig.description_template || "Standard ammunition.",
\* then the replacements
ResolveDescription(template, ammunitionType, material, grade) ==
  ApplyReplacements(IF template # <<>> THEN template ELSE DefaultDescription,
                    Replacements(ammunitionType, material, grade))

\* lines 251-255: sentence case, then whitespace
NormalizeDescription(text) == cleanWhitespace(toSentenceCase(text))

\* the description of the item generated for one triple
Describe ==
  LET resolved == ResolveDescription(descTemplate, TypeA, MatS, GradeH)
  IN
  /\ ~described.done
  /\ described' = [done |-> TRUE, resolved |-> resolved,
                   description |-> NormalizeDescription(resolved)]
  /\ UNCHANGED <<hookVars, resolveVars, genVars, storeVars, mergeVars, callVars, slugVars, descTemplate, resolveVars, now, runs>>

DescInit ==
  /\ compendium = <<>>
  /\ output = Absent
  /\ now = 1
  /\ minted = 0
  /\ runs = 0
  /\ locals = NoLocals
  /\ genLog = <<>>
  /\ last = [cmd |-> "none", status |-> "none", before |-> Absent, args |-> NoArgs]
  /\ jsonFile = Absent
  /\ store = NoDb
  /\ extracted = Absent
  /\ draws = 0
  /\ packLog = NoPack
  /\ storeLast = NoStoreCommand
  /\ inputFiles = <<>>
  /\ mergeOutput = Absent
  /\ mergeLast = NoMergeCommand
  /\ session = NoSession
  /\ calls = <<>>
  /\ title = <<>>
  /\ slugged = NoSlug
  /\ descTemplate \in DescTemplates
  /\ described = NoDescription
  /\ tableInput = NoTableInput
  /\ resolutions = <<>>
  /\ game = NoGame
  /\ timers = <<>>
  /\ hookLog = <<>>
  /\ hooks = NoHooks

DescNext == Describe

DescSpec == DescInit /\ [][DescNext]_vars


(***************************************************************************)
(* Template resolution (lines 226-249) for any configuration: the title    *)
(* template is one of Templates and the values of the substitution table   *)
(* are short texts, among them texts with a dollar sign.  The name is      *)
(* resolved up to MaxRuns times from the same input.                       *)
(***************************************************************************)
Placeholder(word) == <<"{">> \o word \o <<"}">>

PName == Placeholder(<<"n","a","m","e">>)
PMaterial == Placeholder(<<"m","a","t","e","r","i","a","l">>)
PGrade == Placeholder(<<"g","r","a","d","e">>)
PWeapon == Placeholder(<<"w","e","a","p","o","n","_","t","y","p","e">>)
PWeapons == Placeholder(<<"w","e","a","p","o","n","_","t","y","p","e",".","p","l","u","r","a","l">>)

Templates ==
  {DefaultTitle,
   PName \o <<"-">> \o PName,
   GradeLimit \o PGrade,
   PWeapons \o <<" ">> \o PWeapon,
   <<"x">> \o PMaterial \o <<"y">>}

\* names and values of the configuration files
ValueTexts == {<<"S">>, <<"$","$">>, <<"$","&">>, <<"$","'","1">>, PGrade}

LimitTexts == {<<>>, <<"8">>, <<"$", Backquote>>}

TableInputs ==
  {[template |-> tp, type |-> TypeA, material |-> m, grade |-> GradeH, limit |-> l,
    weaponType |-> w] :
     tp \in Templates, m \in ValueTexts, l \in LimitTexts, w \in {<<>>, <<"$","$","W">>}}

\* lines 227-249 for the name; the item type has no ammo_type
ResolveInput(in) ==
  ApplyReplacements(in.template,
                    ReplacementTable(in.type, in.material, in.grade, in.limit, in.type,
                                     IF in.weaponType # <<>> THEN in.weaponType ELSE in.type))

ResolveAgain ==
  /\ Len(resolutions) < MaxRuns
  /\ resolutions' = Append(resolutions, ResolveInput(tableInput))
  /\ UNCHANGED <<hookVars, genVars, storeVars, mergeVars, callVars, slugVars, descVars, tableInput, now, runs>>

ResolveInit ==
  /\ compendium = <<>>
  /\ output = Absent
  /\ now = 1
  /\ minted = 0
  /\ runs = 0
  /\ locals = NoLocals
  /\ genLog = <<>>
  /\ last = [cmd |-> "none", status |-> "none", before |-> Absent, args |-> NoArgs]
  /\ jsonFile = Absent
  /\ store = NoDb
  /\ extracted = Absent
  /\ draws = 0
  /\ packLog = NoPack
  /\ storeLast = NoStoreCommand
  /\ inputFiles = <<>>
  /\ mergeOutput = Absent
  /\ mergeLast = NoMergeCommand
  /\ session = NoSession
  /\ calls = <<>>
  /\ title = <<>>
  /\ slugged = NoSlug
  /\ descTemplate = <<>>
  /\ described = NoDescription
  /\ tableInput \in TableInputs
  /\ resolutions = <<>>
  /\ game = NoGame
  /\ timers = <<>>
  /\ hookLog = <<>>
  /\ hooks = NoHooks

ResolveNext == ResolveAgain

ResolveSpec == ResolveInit /\ [][ResolveNext]_vars


(***************************************************************************)
(* The two merging commands over files that may be malformed.  The output  *)
(* file of generate-ammo.mjs and the input files of merge-ammo.mjs are     *)
(* well formed, malformed or missing, and the output file of merge-ammo    *)
(* may exist already.                                                      *)
(***************************************************************************)
MalformedFiles == {Malformed("syntax"), Malformed("not-array")}

FileOutputs == InitialOutputs \cup MalformedFiles

FileInputLists ==
  {<<File(<<EarlyA>>), File(<<BaseA>>)>>, <<Absent, File(<<BaseA>>)>>}
    \cup {<<m, File(<<BaseA>>)>> : m \in MalformedFiles}
    \cup {<<File(<<EarlyA>>), m>> : m \in MalformedFiles}

FileInit ==
  /\ compendium = <<CompendiumFolder, CompendiumItem>>
  /\ output \in FileOutputs
  /\ now = 1
  /\ minted = 0
  /\ runs = 0
  /\ locals = NoLocals
  /\ genLog = <<>>
  /\ last = [cmd |-> "none", status |-> "none", before |-> Absent, args |-> NoArgs]
  /\ jsonFile = Absent
  /\ store = NoDb
  /\ extracted = Absent
  /\ draws = 0
  /\ packLog = NoPack
  /\ storeLast = NoStoreCommand
  /\ inputFiles \in FileInputLists
  /\ mergeOutput \in {Absent, File(<<OtherB>>)}
  /\ mergeLast = NoMergeCommand
  /\ session = NoSession
  /\ calls = <<>>
  /\ title = <<>>
  /\ slugged = NoSlug
  /\ descTemplate = <<>>
  /\ described = NoDescription
  /\ tableInput = NoTableInput
  /\ resolutions = <<>>
  /\ game = NoGame
  /\ timers = <<>>
  /\ hookLog = <<>>
  /\ hooks = NoHooks

FileNext ==
  \/ \E types \in {<<TypeA, TypeA>>, <<TypeA, TypeX>>} :
       GenerateAndMerge(types, <<MatS>>, <<GradeH>>)
  \/ mergeAmmunitionFiles

FileSpec == FileInit /\ [][FileNext]_vars

(***************************************************************************)
(* src/module.ts: the hooks of the module in the host.  JavaScript runs    *)
(* one handler or timer callback to its end before the next one starts, so *)
(* each of them is one step.  initCompendiumList and resetInitializedTabs  *)
(* are functions of the host: what they do to the settings is the host's   *)
(* choice.                                                                 *)
(***************************************************************************)
MaxHooks == 3

\* pack.metadata.label
PackLabel == <<"P">>

LoadedEntry == <<[load |-> TRUE, name |-> PackLabel]>>

UnloadedEntry == <<[load |-> FALSE, name |-> PackLabel]>>

\* the settings the compendium browser may hold
HostSettings ==
  {NoSettings, [present |-> TRUE, equipment |-> FALSE, entry |-> <<>>]}
    \cup {[present |-> TRUE, equipment |-> TRUE, entry |-> e] :
            e \in {<<>>, LoadedEntry, UnloadedEntry}}

\* game.system?.id: the system of the module, another one, or no system
Systems == {"pf2e", "dnd5e", "none"}

Games ==
  {[system |-> sys, pack |-> pk, browser |-> FALSE, initFn |-> FALSE, resetFn |-> FALSE,
    tabsInitialized |-> TRUE, settings |-> NoSettings, stored |-> NoSettings] :
      sys \in Systems, pk \in BOOLEAN}
    \cup {[system |-> sys, pack |-> pk, browser |-> TRUE, initFn |-> fi, resetFn |-> fr,
           tabsInitialized |-> TRUE, settings |-> st, stored |-> st] :
             sys \in Systems, pk \in BOOLEAN, fi \in BOOLEAN, fr \in BOOLEAN,
             st \in HostSettings}

\* an entry of hookLog
Event(kind, by, value, had, loaded) ==
  [kind |-> kind, by |-> by, value |-> value, had |-> had, loaded |-> loaded]

HasEntry(g) == g.browser /\ g.settings.present /\ g.settings.equipment /\ g.settings.entry # <<>>

EntryLoaded(g) == HasEntry(g) /\ g.settings.entry[1].load = TRUE

\* lines 9-17: game.settings.set(...) when the browser has settings; an error
\* of game.settings.set is caught and logged
saveCompendiumBrowserSettings(st, by, ok) ==
  IF st.game.browser /\ st.game.settings.present
  THEN [st EXCEPT !.log = Append(@, Event("save", by, ok, HasEntry(st.game), EntryLoaded(st.game))),
                  !.game.stored = IF ok THEN st.game.settings ELSE @]
  ELSE st

\* equipmentSettings[packName] = {load: true, name: ...} and packSettings.load = true
WriteEntry(st, by, entry) ==
  [st EXCEPT !.game.settings.entry = entry,
             !.log = Append(@, Event("write", by, entry[1].load, HasEntry(st.game), TRUE))]

\* enableOurPack that does not save
enableOurPackUnsaved(st, by, ok) ==
  IF HasEntry(st.game)
  THEN LET written == WriteEntry(st, by, <<[st.game.settings.entry[1] EXCEPT !.load = TRUE]>>)
       IN [written EXCEPT !.log = Append(@, Event("return", by, TRUE, TRUE, EntryLoaded(written.game)))]
  ELSE [st EXCEPT !.log = Append(@, Event("return", by, FALSE, FALSE, FALSE))]

\* lines 20-37: enableOurPack; its return value is the "return" event
enableOurPack(st, by, ok) ==
  IF /\ st.game.browser /\ st.game.settings.present /\ st.game.settings.equipment
     /\ st.game.settings.entry # <<>>
  THEN LET written == WriteEntry(st, by, <<[st.game.settings.entry[1] EXCEPT !.load = TRUE]>>)
           saving == saveCompendiumBrowserSettings(written, by, ok)
       IN [saving EXCEPT !.log = Append(@, Event("return", by, TRUE, HasEntry(st.game),
                                                 EntryLoaded(saving.game)))]
  ELSE [st EXCEPT !.log = Append(@, Event("return", by, FALSE, HasEntry(st.game),
                                          EntryLoaded(st.game)))]

\* what a call of the host's initCompendiumList may do: throw, or leave the
\* browser with settings of its choice
InitOutcomes ==
  {[threw |-> TRUE, settings |-> NoSettings]}
    \cup {[threw |-> FALSE, settings |-> s] : s \in HostSettings}

initCompendiumList(st, outcome) ==
  IF outcome.threw THEN st ELSE [st EXCEPT !.game.settings = outcome.settings]

resetInitializedTabs(st, threw) ==
  IF threw THEN st ELSE [st EXCEPT !.game.tabsInitialized = FALSE]

\* lines 58-74: the entry is added, or its load flag is set when it is not true
EnsureEntry(st, by, ok) ==
  IF st.game.settings.present /\ st.game.settings.equipment
  THEN IF st.game.settings.entry = <<>>
       THEN saveCompendiumBrowserSettings(WriteEntry(st, by, LoadedEntry), by, ok)
       ELSE IF st.game.settings.entry[1].load # TRUE
            THEN saveCompendiumBrowserSettings(
                   WriteEntry(st, by, <<[st.game.settings.entry[1] EXCEPT !.load = TRUE]>>),
                   by, ok)
            ELSE st
  ELSE st

\* lines 40-85: the handler of 'ready'; an error of the host's functions is
\* caught and ends the handler
ReadyHandler(st, init, ok, resetThrew) ==
  IF st.game.system # "pf2e" THEN st
  ELSE IF ~(st.game.pack /\ st.game.browser) THEN st
  ELSE IF st.game.initFn /\ init.threw THEN st
  ELSE LET listed == IF st.game.initFn THEN initCompendiumList(st, init) ELSE st
           ensured == EnsureEntry(listed, "ready", ok)
       IN IF ensured.game.resetFn THEN resetInitializedTabs(ensured, resetThrew) ELSE ensured

\* lines 120-133: the entry is added when the pack exists, or its load flag set
ForceEntry(st, by, ok) ==
  IF st.game.settings.present /\ st.game.settings.equipment
  THEN IF st.game.pack /\ st.game.settings.entry = <<>>
       THEN saveCompendiumBrowserSettings(WriteEntry(st, by, LoadedEntry), by, ok)
       ELSE IF st.game.settings.entry # <<>>
            THEN saveCompendiumBrowserSettings(
                   WriteEntry(st, by, <<[st.game.settings.entry[1] EXCEPT !.load = TRUE]>>),
                   by, ok)
            ELSE st
  ELSE st

\* lines 104-138: the callback that 'renderCompendiumDirectory' hands to setTimeout
DirectoryCallback(st, init, ok, resetThrew) ==
  IF ~st.game.browser THEN st
  ELSE IF st.game.initFn /\ init.threw THEN st
  ELSE LET listed == IF st.game.initFn THEN initCompendiumList(st, init) ELSE st
       IN IF listed.game.resetFn /\ resetThrew THEN listed
          ELSE ForceEntry(IF listed.game.resetFn THEN resetInitializedTabs(listed, FALSE)
                          ELSE listed,
                          "directory", ok)

\* Hooks.once('ready', ...)
Ready ==
  /\ hooks.count < MaxHooks
  /\ ~hooks.ready
  /\ \E init \in InitOutcomes, ok \in BOOLEAN, resetThrew \in BOOLEAN :
       LET done == ReadyHandler([game |-> game, log |-> hookLog], init, ok, resetThrew)
       IN /\ game' = done.game
          /\ hookLog' = done.log
  /\ hooks' = [count |-> hooks.count + 1, ready |-> TRUE, last |-> "ready"]
  /\ UNCHANGED <<genVars, storeVars, mergeVars, callVars, slugVars, descVars, resolveVars, timers, now, runs>>

\* lines 88-92: Hooks.on('pf2e.ready', ...): setTimeout(enableOurPack, 1000)
Pf2eReady ==
  /\ hooks.count < MaxHooks
  /\ timers' = Append(timers, [callback |-> "enableOurPack", hook |-> "pf2e.ready", delay |-> 1000])
  /\ hooks' = [hooks EXCEPT !.count = @ + 1, !.last = "pf2e.ready"]
  /\ UNCHANGED <<genVars, storeVars, mergeVars, callVars, slugVars, descVars, resolveVars, game, hookLog, now, runs>>

\* lines 95-99: Hooks.on('pf2e.compendiumBrowser.ready', ...)
CompendiumBrowserReady ==
  /\ hooks.count < MaxHooks
  /\ timers' = Append(timers, [callback |-> "enableOurPack", hook |-> "pf2e.compendiumBrowser.ready", delay |-> 1000])
  /\ hooks' = [hooks EXCEPT !.count = @ + 1, !.last = "pf2e.compendiumBrowser.ready"]
  /\ UNCHANGED <<genVars, storeVars, mergeVars, callVars, slugVars, descVars, resolveVars, game, hookLog, now, runs>>

\* lines 102-140: Hooks.on('renderCompendiumDirectory', ...); without a game
\* system the read of game.system.id throws
RenderCompendiumDirectory ==
  /\ hooks.count < MaxHooks
  /\ timers' = IF game.system = "pf2e"
               THEN Append(timers, [callback |-> "directory", hook |-> "renderCompendiumDirectory", delay |-> 500])
               ELSE timers
  /\ hooks' = [hooks EXCEPT !.count = @ + 1, !.last = "renderCompendiumDirectory"]
  /\ UNCHANGED <<genVars, storeVars, mergeVars, callVars, slugVars, descVars, resolveVars, game, hookLog, now, runs>>

RemoveAt(seq, k) == SubSeq(seq, 1, k - 1) \o SubSeq(seq, k + 1, Len(seq))

\* a callback handed to setTimeout runs: one that no callback handed over
\* earlier with the same or a shorter delay is waiting before
Timeout(k) ==
  /\ k \in 1..Len(timers)
  /\ \A j \in 1..(k - 1) : timers[j].delay > timers[k].delay
  /\ IF timers[k].callback = "enableOurPack"
     THEN \E ok \in BOOLEAN :
            LET done == enableOurPack([game |-> game, log |-> hookLog], "enableOurPack", ok)
            IN /\ game' = done.game
               /\ hookLog' = done.log
     ELSE \E init \in InitOutcomes, ok \in BOOLEAN, resetThrew \in BOOLEAN :
            LET done == DirectoryCallback([game |-> game, log |-> hookLog], init, ok, resetThrew)
            IN /\ game' = done.game
               /\ hookLog' = done.log
  /\ timers' = RemoveAt(timers, k)
  /\ hooks' = [hooks EXCEPT !.last = "timeout"]
  /\ UNCHANGED <<genVars, storeVars, mergeVars, callVars, slugVars, descVars, resolveVars, now, runs>>

HookInit ==
  /\ compendium = <<>>
  /\ output = Absent
  /\ now = 1
  /\ minted = 0
  /\ runs = 0
  /\ locals = NoLocals
  /\ genLog = <<>>
  /\ last = [cmd |-> "none", status |-> "none", before |-> Absent, args |-> NoArgs]
  /\ jsonFile = Absent
  /\ store = NoDb
  /\ extracted = Absent
  /\ draws = 0
  /\ packLog = NoPack
  /\ storeLast = NoStoreCommand
  /\ inputFiles = <<>>
  /\ mergeOutput = Absent
  /\ mergeLast = NoMergeCommand
  /\ session = NoSession
  /\ calls = <<>>
  /\ title = <<>>
  /\ slugged = NoSlug
  /\ descTemplate = <<>>
  /\ described = NoDescription
  /\ tableInput = NoTableInput
  /\ resolutions = <<>>
  /\ game \in Games
  /\ timers = <<>>
  /\ hookLog = <<>>
  /\ hooks = NoHooks

HookNext ==
  \/ Ready
  \/ Pf2eReady
  \/ CompendiumBrowserReady
  \/ RenderCompendiumDirectory
  \/ \E k \in 1..MaxHooks : Timeout(k)

HookSpec == HookInit /\ [][HookNext]_vars


(***************************************************************************)
(* Properties of generate-and-merge and of the batch commands.             *)
(***************************************************************************)
GenOk == last.cmd = "gen" /\ last.status = "ok"

Before == last.before.data

Out == output.data

\* the time the last command read from Date.now()
RunTime == now - 1

GeneratedSlugs == {genLog[i].item.system.slug : i \in 1..Len(genLog)}

SlugOf(record) == record.system.slug

\* C1: across successive generate-and-merge runs on one output file, an item
\* record written with slug s and identifier i keeps identifier i: every item
\* record with slug s in the output of the next run carries the same _id.
C1_IdentifierStable ==
  [][(GenOk /\ last'.cmd = "gen" /\ last'.status = "ok" /\ runs' = runs + 1)
       => \A i \in 1..Len(output.data), j \in 1..Len(output'.data) :
            (/\ IsItemRecord(output.data[i]) /\ HasSlug(output.data[i])
             /\ IsItemRecord(output'.data[j]) /\ HasSlug(output'.data[j])
             /\ SlugOf(output.data[i]) = SlugOf(output'.data[j]))
            => output.data[i]._id = output'.data[j]._id]_vars

\* C2: two generations of the same (item type, material, grade) triple in one
\* batch give the same slug and the same identifier, whatever the index holds.
C2_SameTripleSameIdentifier ==
  \A i, j \in 1..Len(genLog) :
    genLog[i].tr = genLog[j].tr
      => /\ SlugOf(genLog[i].item) = SlugOf(genLog[j].item)
         /\ genLog[i].item._id = genLog[j].item._id

\* the record of the existing output that a regenerated slug is matched with
Matched(i) ==
  /\ IsItemRecord(Before[i])
  /\ HasSlug(Before[i])
  /\ SlugOf(Before[i]) \in GeneratedSlugs
  /\ \A j \in (i + 1)..Len(Before) :
       ~(IsItemRecord(Before[j]) /\ HasSlug(Before[j]) /\ SlugOf(Before[j]) = SlugOf(Before[i]))

\* C3: a regenerated record whose slug matches an existing record with
\* creation time T is written with createdTime = T and modifiedTime = the
\* time of the generation, for every T.
C3_CreatedTimePreserved ==
  GenOk =>
    \A i \in 1..Len(Before) :
      (Matched(i) /\ "_stats" \in DOMAIN Before[i] /\ "createdTime" \in DOMAIN Before[i]._stats)
        => /\ Out[i]._stats.createdTime = Before[i]._stats.createdTime
           /\ Out[i]._stats.modifiedTime = RunTime

\* the generated items whose slug matches no item of the existing output
Unmatched ==
  LET known == {SlugOf(Before[i]) :
                  i \in {j \in 1..Len(Before) : IsItemRecord(Before[j]) /\ HasSlug(Before[j])}}
      fresh == SelectSeq(genLog, LAMBDA g : SlugOf(g.item) \notin known)
  IN [i \in 1..Len(fresh) |-> fresh[i].item]

\* record `new` is record `old` updated in place by a generated item
UpdatedInPlace(old, new) ==
  /\ IsItemRecord(old) /\ HasSlug(old)
  /\ \E i \in 1..Len(genLog) :
       /\ SlugOf(genLog[i].item) = SlugOf(old)
       /\ DOMAIN genLog[i].item \subseteq DOMAIN new
       /\ \A f \in DOMAIN genLog[i].item \ {"_stats"} : new[f] = genLog[i].item[f]
       /\ new._stats.modifiedTime = genLog[i].item._stats.modifiedTime

\* C4: the written output is the existing records in their positions (matched
\* ones updated in place), then the unmatched generated items in generation
\* order, then the folders created by this run.
C4_MergeOrder ==
  GenOk =>
    LET n == Len(Before)
        k == Len(Unmatched)
    IN /\ Len(Out) >= n + k
       /\ \A i \in 1..n : Out[i] = Before[i] \/ UpdatedInPlace(Before[i], Out[i])
       /\ SubSeq(Out, n + 1, n + k) = Unmatched
       /\ \A i \in (n + k + 1)..Len(Out) :
            /\ IsFolderRecord(Out[i])
            /\ Out[i].name \in locals.newFolders
            /\ Out[i]._stats.createdTime = RunTime

\* C4 witness: a run that kept a record, updated another in place and appended
\* two items after them
C4_Witness ==
  /\ GenOk
  /\ Len(Before) >= 2
  /\ \E i, j \in 1..Len(Before) : Out[i] = Before[i] /\ Out[j] # Before[j]
  /\ Len(Unmatched) >= 2
  /\ Unmatched[1] # Unmatched[2]

\* C5: no record is deleted: every existing record whose slug the batch did
\* not produce, and every existing folder, is in the written output at its
\* index with all fields unchanged.
C5_NothingDeleted ==
  GenOk =>
    /\ Len(Out) >= Len(Before)
    /\ \A i \in 1..Len(Before) :
         (\/ IsFolderRecord(Before[i])
          \/ ~(IsItemRecord(Before[i]) /\ HasSlug(Before[i])
               /\ SlugOf(Before[i]) \in GeneratedSlugs))
           => Out[i] = Before[i]

\* C5 witness: a run over an output with a folder and an untouched record that
\* also changed one of the existing records
C5_Witness ==
  /\ GenOk
  /\ \E i, j, k \in 1..Len(Before) :
       /\ IsFolderRecord(Before[i])
       /\ ~IsFolderRecord(Before[j]) /\ Out[j] = Before[j]
       /\ Out[k] # Before[k]

\* the folder records this run added to compendiumData
CreatedFolders == SubSeq(locals.compendiumData, Len(compendium) + 1, Len(locals.compendiumData))

Positions(records, name) ==
  {i \in 1..Len(records) : IsFolderRecord(records[i]) /\ records[i].name = name}

\* C6: a folder name missing from the folder index gives one folder record
\* for the whole batch, shared by all items of the batch that use the name,
\* and written once, after all items, unless the output holds such a folder.
C6_FolderCreatedOnce ==
  GenOk =>
    /\ \A i \in 1..Len(genLog) :
         LET cfg == ammoConfigs[genLog[i].tr.type] IN
         ("folder" \in DOMAIN cfg /\ cfg.folder \notin DOMAIN FolderMapOf(compendium))
           => cfg.folder \in locals.newFolders
    /\ \A name \in locals.newFolders :
         /\ Cardinality(Positions(CreatedFolders, name)) = 1
         /\ \A i \in 1..Len(genLog) :
              LET cfg == ammoConfigs[genLog[i].tr.type] IN
              ("folder" \in DOMAIN cfg /\ cfg.folder = name)
                => \A p \in Positions(CreatedFolders, name) :
                     genLog[i].item.folder = CreatedFolders[p]._id
         /\ Positions(Before, name) = {}
              => /\ Cardinality(Positions(Out, name)) = 1
                 /\ \A p \in Positions(Out, name) :
                      /\ Out[p] \in {CreatedFolders[q] : q \in 1..Len(CreatedFolders)}
                      /\ \A q \in 1..Len(Out) : IsItemRecord(Out[q]) => q < p

\* C6 witness: two items of one batch filed in a folder the run created and wrote
C6_Witness ==
  /\ GenOk
  /\ \E name \in locals.newFolders :
       /\ Positions(Out, name) # {}
       /\ Positions(Before, name) = {}
       /\ \E i, j \in 1..Len(genLog) :
            /\ i # j
            /\ genLog[i].item._id # genLog[j].item._id
            /\ genLog[i].item.folder = genLog[j].item.folder
            /\ genLog[i].item.folder # Null

UnknownType(a) == \E i \in 1..Len(a.types) : a.types[i] \notin DOMAIN ammoConfigs

UnknownMaterial(a) == \E i \in 1..Len(a.materials) : a.materials[i] \notin DOMAIN weaponMaterials

\* a grade that one of the listed (known) materials does not have
UnknownGrade(a) ==
  \E i \in 1..Len(a.materials), j \in 1..Len(a.grades) :
    /\ a.materials[i] \in DOMAIN weaponMaterials
    /\ a.grades[j] \notin DOMAIN weaponMaterials[a.materials[i]].grades

\* the run failed before it generated or wrote anything
FailedEarly == last.status = "error" /\ genLog = <<>> /\ output = last.before

AvailableTriples(a) ==
  LET all == [n \in 1..NumTriples(a) |-> TripleAt(a, n)]
  IN SelectSeq(all, LAMBDA tr : tr.grade \in DOMAIN weaponMaterials[tr.material].grades)

C8_UnknownMaterialLeavesOutput ==
  (last.cmd # "none" /\ UnknownMaterial(last.args))
    => /\ last.status = "error"
       /\ output = last.before

\* C8 witness: a run with known item types and an unknown material, over an
\* output file with records in it
C8_Witness ==
  /\ last.cmd # "none"
  /\ ~UnknownType(last.args) /\ UnknownMaterial(last.args)
  /\ last.status = "error"
  /\ last.before.exists /\ Len(last.before.data) > 0

(***************************************************************************)
(* Packing and extraction                                                  *)
(***************************************************************************)
\* an extraction has just succeeded on a store that a pack of jsonFile wrote last
PackedThenExtracted ==
  storeLast.cmd = "extract" /\ storeLast.status = "ok" /\ packLog.ran

\* the record compared without regard to _metadata.key
WithoutKey(record) ==
  IF "_metadata" \notin DOMAIN record THEN record
  ELSE LET rest == Without(record._metadata, "key")
       IN IF DOMAIN rest = {} THEN Without(record, "_metadata")
          ELSE [f \in DOMAIN record |-> IF f = "_metadata" THEN rest ELSE record[f]]

\* the pack found no database or an empty one, and no write failed
FreshPack == DOMAIN packLog.before = {} /\ packLog.errors = 0

\* C9 as stated: for every collection, packing it (into an empty store, every
\* write succeeding) and then extracting the store yields as many records as the
\* collection holds, and every original record is among them with all its
\* fields other than _metadata.key.
C9_RoundTrip ==
  (PackedThenExtracted /\ FreshPack) =>
    /\ Len(extracted.data) = Len(jsonFile.data)
    /\ \A i \in 1..Len(jsonFile.data) : \E j \in 1..Len(extracted.data) :
         WithoutKey(extracted.data[j]) = WithoutKey(jsonFile.data[i])

PackedKeys == {packLog.entries[i].key : i \in 1..Len(packLog.entries)}

\* every record went under a key of its own, none of them a key the extraction
\* skips, no write failed, and the store held no other key
CleanPack ==
  /\ \A i, j \in 1..Len(packLog.entries) :
       i # j => packLog.entries[i].key # packLog.entries[j].key
  /\ \A k \in PackedKeys : ~IsInternalKey(k)
  /\ packLog.errors = 0
  /\ DOMAIN packLog.before \subseteq PackedKeys

\* C9, amended: when the records of the collection go under pairwise distinct
\* storage keys, none of them skipped by the extraction, no write fails and the
\* store holds no other key, packing and then extracting yields as many records
\* as the collection holds, and every original record is among them with all its
\* fields other than _metadata, which holds the storage key and nothing else.
C9_RoundTripDistinctKeys ==
  (PackedThenExtracted /\ CleanPack) =>
    /\ Len(extracted.data) = Len(jsonFile.data)
    /\ \A i \in 1..Len(jsonFile.data) : \E j \in 1..Len(extracted.data) :
         /\ "_metadata" \in DOMAIN extracted.data[j]
         /\ extracted.data[j]._metadata = [key |-> packLog.entries[i].key]
         /\ Without(extracted.data[j], "_metadata") = Without(jsonFile.data[i], "_metadata")

\* two records, one of them without _metadata, packed cleanly and extracted in
\* another order than they were packed
C9_Witness ==
  /\ PackedThenExtracted
  /\ CleanPack
  /\ Len(jsonFile.data) = 2
  /\ "_metadata" \in DOMAIN jsonFile.data[1]
  /\ "_metadata" \notin DOMAIN jsonFile.data[2]
  /\ Without(extracted.data[1], "_metadata") = Without(jsonFile.data[2], "_metadata")

\* a folder record carries type "Item", the kind of document it files
RecordKind(record) ==
  IF "type" \in DOMAIN record /\ record.type = "Item" THEN "!folders!" ELSE "!items!"

\* C10: a packed record is stored under its _metadata.key if it has one, else
\* under a key whose prefix names the kind of the record (!folders! for a folder,
\* !items! for an item) followed by its _id; the stored value is the record
\* without _metadata, and the records read from the file are left as they were.
C10_KeyMatchesKind ==
  (storeLast.cmd = "pack" /\ storeLast.status = "ok") =>
    /\ packLog.records = jsonFile.data
    /\ \A i \in 1..Len(packLog.records) :
         LET record == packLog.records[i]
             entry == packLog.entries[i]
         IN /\ entry.value = Without(record, "_metadata")
            /\ IF "_metadata" \in DOMAIN record
               THEN entry.key = record._metadata.key
               ELSE /\ entry.key[1] = RecordKind(record)
                    /\ "_id" \in DOMAIN record => entry.key[2] = record._id

\* the records of the last pack whose put failed / succeeded
FailedPuts == {i \in 1..Len(packLog.entries) : packLog.entries[i].failed}

WrittenPuts == {i \in 1..Len(packLog.entries) : ~packLog.entries[i].failed}

\* C11: a failed write does not abort the pack: every record of the file is
\* attempted, the records after the failing one included and stored; each
\* written record is counted once and each failure collected once, so the two
\* counts add up to the number of input records.
C11_FailureDoesNotAbort ==
  (storeLast.cmd = "pack" /\ packLog.ran) =>
    /\ Len(packLog.entries) = Len(packLog.records)
    /\ packLog.recordCount = Cardinality(WrittenPuts)
    /\ packLog.errors = Cardinality(FailedPuts)
    /\ packLog.recordCount + packLog.errors = Len(packLog.records)
    /\ \A i \in WrittenPuts : packLog.entries[i].key \in DOMAIN store.data

\* C11 witness: the first put failed and the record after it was stored under
\* a key the store did not hold
C11_Witness ==
  /\ storeLast.cmd = "pack" /\ packLog.ran
  /\ 1 \in FailedPuts
  /\ 2 \in WrittenPuts
  /\ packLog.entries[2].key \notin DOMAIN packLog.before
  /\ packLog.entries[2].key \in DOMAIN store.data
  /\ packLog.recordCount = 1 /\ packLog.errors = 1

ExtractOk == storeLast.cmd = "extract" /\ storeLast.status = "ok"

\* the three marker keys
IsMarkerKey(key) == key[1] \in {"CURRENT", "LOCK", "LOG"} /\ key[2] = <<"", 0>>

\* the written file holds the entries of the store under `keys`, one record for
\* each, in iteration order, each with the value's fields and its key
ExtractedExactly(keys) ==
  /\ Len(extracted.data) = Cardinality(keys)
  /\ \A j \in 1..Len(extracted.data) :
       /\ "_metadata" \in DOMAIN extracted.data[j]
       /\ DOMAIN extracted.data[j]._metadata = {"key"}
       /\ extracted.data[j]._metadata.key \in keys
       /\ Without(extracted.data[j], "_metadata")
            = Without(store.data[extracted.data[j]._metadata.key], "_metadata")
  /\ \A i, j \in 1..Len(extracted.data) :
       i < j => /\ extracted.data[i]._metadata.key # extracted.data[j]._metadata.key
                /\ KeyBefore(extracted.data[i]._metadata.key, extracted.data[j]._metadata.key)

\* C12 as stated: extraction writes one record for every key of the store
\* other than the CURRENT, LOCK and LOG markers, in iteration order, each with
\* _metadata.key equal to its key; no other key is skipped.
C12_OnlyMarkersSkipped ==
  ExtractOk => ExtractedExactly({k \in DOMAIN store.data : ~IsMarkerKey(k)})

\* C12, amended: extraction writes one record for every key of the store that
\* is neither one of the CURRENT, LOCK and LOG markers nor a key that begins
\* with an underscore, in iteration order, each with _metadata.key equal to
\* its key; the keys that begin with an underscore are skipped as well.
C12_MarkersAndUnderscoreSkipped ==
  ExtractOk =>
    ExtractedExactly({k \in DOMAIN store.data : ~IsMarkerKey(k) /\ k[1] # "_"})

\* C12 witness: an extraction of a store with a marker key, a key that begins
\* with an underscore and two more keys
C12_Witness ==
  /\ ExtractOk
  /\ \E k \in DOMAIN store.data : IsMarkerKey(k)
  /\ \E k \in DOMAIN store.data : k[1] = "_"
  /\ Len(extracted.data) >= 2

\* C13: when a pack or an extraction ends, on the success path or on a failure
\* path, the store handle it opened has been closed.
C13_HandleClosedAtExit == storeLast.handle # "open"

(***************************************************************************)
(* Merging of collections                                                  *)
(***************************************************************************)
MergeOk == mergeLast.cmd = "merge" /\ mergeLast.status = "ok"

\* the rightmost input file
BaseItems == inputFiles[Len(inputFiles)].data

\* the items of the earlier input files, file after file
RECURSIVE ItemsOfFiles(_, _)
ItemsOfFiles(files, n) ==
  IF n = 0 THEN <<>> ELSE ItemsOfFiles(files, n - 1) \o files[n].data

EarlierItems == ItemsOfFiles(inputFiles, Len(inputFiles) - 1)

SlugsIn(items) == {items[i].system.slug : i \in {j \in 1..Len(items) : HasSlug(items[j])}}

MergedItems == mergeOutput.data

\* the item without its _stats.createdTime
WithoutCreatedTime(item) ==
  IF "_stats" \in DOMAIN item
  THEN [f \in DOMAIN item |->
          IF f = "_stats" THEN Without(item._stats, "createdTime") ELSE item[f]]
  ELSE item

LastWithSlug(items, slug) ==
  items[CHOOSE k \in 1..Len(items) :
          /\ HasSlug(items[k]) /\ SlugOf(items[k]) = slug
          /\ \A m \in (k + 1)..Len(items) : ~(HasSlug(items[m]) /\ SlugOf(items[m]) = slug)]

\* item i of `items` is the first one with its slug
FirstOfSlug(items, i) ==
  /\ HasSlug(items[i])
  /\ \A m \in 1..(i - 1) : ~(HasSlug(items[m]) /\ SlugOf(items[m]) = SlugOf(items[i]))

\* what follows the base positions: the earlier items without a slug, and for
\* every slug that is not in the base the last earlier item with it, at the
\* place of the first
AppendedItems ==
  LET place == SelectSeq([k \in 1..Len(EarlierItems) |-> k], LAMBDA k :
                 \/ ~HasSlug(EarlierItems[k])
                 \/ /\ FirstOfSlug(EarlierItems, k)
                    /\ SlugOf(EarlierItems[k]) \notin SlugsIn(BaseItems))
  IN [n \in 1..Len(place) |->
        IF HasSlug(EarlierItems[place[n]])
        THEN LastWithSlug(EarlierItems, SlugOf(EarlierItems[place[n]]))
        ELSE EarlierItems[place[n]]]

C15_CreatedTimeFromBase ==
  MergeOk =>
    \A i \in 1..Len(BaseItems) :
      (FirstOfSlug(BaseItems, i) /\ SlugOf(BaseItems[i]) \in SlugsIn(EarlierItems)
         /\ "_stats" \in DOMAIN BaseItems[i] /\ "createdTime" \in DOMAIN BaseItems[i]._stats)
        => /\ MergedItems[i]._stats.createdTime = BaseItems[i]._stats.createdTime
           /\ WithoutCreatedTime(MergedItems[i])
                = WithoutCreatedTime(LastWithSlug(EarlierItems, SlugOf(BaseItems[i])))

SlugLess(items) == SelectSeq(items, LAMBDA item : ~HasSlug(item))

\* C16: the items without a slug pass through unchanged: one of the base stays
\* at its position, those of the earlier files follow the base positions in
\* their order, each exactly once, and no item without a slug takes the place
\* of another item or loses its place to one.
C16_SlugLessPassThrough ==
  MergeOk =>
    /\ Len(MergedItems) >= Len(BaseItems)
    /\ \A i \in 1..Len(BaseItems) :
         /\ ~HasSlug(BaseItems[i]) => MergedItems[i] = BaseItems[i]
         /\ ~HasSlug(MergedItems[i]) => ~HasSlug(BaseItems[i])
    /\ SlugLess(SubSeq(MergedItems, Len(BaseItems) + 1, Len(MergedItems)))
         = SlugLess(EarlierItems)

\* C16 witness: two earlier items without a slug, and a base with an item
\* without a slug next to a replaced one
C16_Witness ==
  /\ MergeOk
  /\ Len(SlugLess(EarlierItems)) >= 2
  /\ Len(SlugLess(BaseItems)) = 1
  /\ \E i \in 1..Len(BaseItems) : HasSlug(BaseItems[i])
  /\ Len(SlugLess(MergedItems)) >= 3

(***************************************************************************)
(* Slugs, identifiers and folders                                          *)
(***************************************************************************)
\* at most one item record per slug
UniqueSlugs(records) ==
  \A i, j \in 1..Len(records) :
    (/\ IsItemRecord(records[i]) /\ HasSlug(records[i])
     /\ IsItemRecord(records[j]) /\ HasSlug(records[j])
     /\ SlugOf(records[i]) = SlugOf(records[j]))
      => i = j

\* C17: a generate-and-merge run over an output with at most one item record
\* per slug writes an output with at most one item record per slug, whatever
\* its argument lists.
C17_SlugsStayUnique ==
  [][(last'.cmd = "gen" /\ last'.status = "ok" /\ runs' = runs + 1
        /\ UniqueSlugs(output.data))
       => UniqueSlugs(output'.data)]_vars

\* call n returned (it did not throw)
Returned(n) == ~calls[n].result.threw

CallSlug(n) == calls[n].result.item.system.slug

\* call n found its slug in the slug-to-id index
SlugIndexed(n) == CallSlug(n) \in DOMAIN calls[n].before.itemSlugMap

Minted(n) == Returned(n) /\ ~calls[n].result.isExisting

IndexedIds(n) ==
  {calls[n].before.itemSlugMap[s] : s \in DOMAIN calls[n].before.itemSlugMap}

\* a call whose slug is indexed returns the indexed id with isExisting = true
ReusesIndexedId(n) ==
  SlugIndexed(n) =>
    /\ calls[n].result.isExisting
    /\ calls[n].result.itemId = calls[n].before.itemSlugMap[CallSlug(n)]
    /\ calls[n].result.item._id = calls[n].result.itemId

FolderNameOf(n) ==
  LET ammoConfig == ammoConfigs[calls[n].tr[1]]
  IN IF "folder" \in DOMAIN ammoConfig THEN ammoConfig.folder ELSE <<>>

\* call n left folderMap, compendiumData and newFolders as they were
SessionUntouched(n) ==
  /\ calls[n].result.folderMap = calls[n].before.folderMap
  /\ calls[n].result.compendiumData = calls[n].before.compendiumData
  /\ calls[n].result.newFolders = calls[n].before.newFolders

\* call n appended one folder record named after its folder, indexed its id
\* and flagged the name
FolderCreated(n) ==
  LET cData == calls[n].result.compendiumData
      newFolder == cData[Len(cData)]
  IN /\ Len(cData) = Len(calls[n].before.compendiumData) + 1
     /\ SubSeq(cData, 1, Len(cData) - 1) = calls[n].before.compendiumData
     /\ IsFolderRecord(newFolder)
     /\ newFolder.name = FolderNameOf(n)
     /\ newFolder._id = calls[n].result.item.folder
     /\ DOMAIN calls[n].result.folderMap =
          DOMAIN calls[n].before.folderMap \cup {FolderNameOf(n)}
     /\ \A name \in DOMAIN calls[n].before.folderMap :
          calls[n].result.folderMap[name] = calls[n].before.folderMap[name]
     /\ calls[n].result.newFolders = calls[n].before.newFolders \cup {FolderNameOf(n)}

\* C19: an item of a type without a folder name gets a null folder; one whose
\* folder name is indexed gets the indexed id; any other gets the id of a new
\* folder record, which is indexed and flagged in newFolders.  Afterwards the
\* item's folder is the index entry of its folder name.
C19_FolderResolved ==
  \A n \in 1..Len(calls) :
    Returned(n) =>
      /\ FolderNameOf(n) = <<>> =>
           calls[n].result.item.folder = Null /\ SessionUntouched(n)
      /\ (FolderNameOf(n) # <<>> /\ FolderNameOf(n) \in DOMAIN calls[n].before.folderMap) =>
           /\ calls[n].result.item.folder = calls[n].before.folderMap[FolderNameOf(n)]
           /\ SessionUntouched(n)
      /\ (FolderNameOf(n) # <<>> /\ FolderNameOf(n) \notin DOMAIN calls[n].before.folderMap) =>
           FolderCreated(n)
      /\ FolderNameOf(n) # <<>> =>
           /\ FolderNameOf(n) \in DOMAIN calls[n].result.folderMap
           /\ calls[n].result.item.folder = calls[n].result.folderMap[FolderNameOf(n)]

\* the first call created its folder, the second took it from the index
C19_Witness ==
  /\ Len(calls) = 2
  /\ Returned(1) /\ Returned(2)
  /\ FolderNameOf(1) # <<>> /\ FolderNameOf(1) \notin DOMAIN calls[1].before.folderMap
  /\ FolderNameOf(2) = FolderNameOf(1)
  /\ calls[2].result.item.folder = calls[1].result.item.folder
  /\ calls[2].before.newFolders = {FolderNameOf(1)}

\* lowercase alphanumeric groups joined by single hyphens
WellFormedSlug(slug) ==
  slug # <<>> =>
    /\ \A i \in 1..Len(slug) : slug[i] \in LowerLetters \cup Digits \cup {"-"}
    /\ slug[1] # "-"
    /\ slug[Len(slug)] # "-"
    /\ \A i \in 1..(Len(slug) - 1) : ~(slug[i] = "-" /\ slug[i + 1] = "-")

\* C20: the slug derived from a resolved name is empty or consists of
\* lowercase alphanumeric groups joined by single hyphens; it never begins or
\* ends with a hyphen.
C20_SlugWellFormed == slugged.script # "none" => WellFormedSlug(slugged.slug)

(***************************************************************************)
(* Descriptions and templates.                                             *)
(***************************************************************************)
\* first character uppercase (it is its own toUpperCase), the others lowercase
SentenceCased(text) ==
  text # <<>> =>
    /\ toUpperCase(<<text[1]>>) = <<text[1]>>
    /\ toLowerCase(Tail(text)) = Tail(text)

CleanSpaced(text) ==
  /\ \A i \in 1..(Len(text) - 1) : ~(text[i] \in Whitespace /\ text[i + 1] \in Whitespace)
  /\ \A i \in 1..(Len(text) - 1) : ~(text[i] \in Whitespace /\ text[i + 1] = ".")
  /\ text # <<>> => text[1] \notin Whitespace /\ text[Len(text)] \notin Whitespace

\* C21: the generated description has its first character uppercase and the
\* others lowercase, no run of two whitespace characters, no whitespace
\* before a period, no whitespace at either end, and normalizing it again
\* changes nothing.
C21_DescriptionNormalized ==
  described.done =>
    /\ SentenceCased(described.description)
    /\ CleanSpaced(described.description)
    /\ NormalizeDescription(described.description) = described.description

\* every occurrence of key in text replaced by value, taken as plain text
RECURSIVE ReplaceLiterally(_, _, _)
ReplaceLiterally(text, key, value) ==
  IF Len(text) < Len(key) THEN text
  ELSE IF SubSeq(text, 1, Len(key)) = key
       THEN value \o ReplaceLiterally(SubSeq(text, Len(key) + 1, Len(text)), key, value)
       ELSE <<Head(text)>> \o ReplaceLiterally(Tail(text), key, value)

\* the placeholders replaced one after the other in the order of the table
RECURSIVE ResolveLiterally(_, _)
ResolveLiterally(text, reps) ==
  IF reps = <<>> THEN text
  ELSE ResolveLiterally(ReplaceLiterally(text, Head(reps)[1], Head(reps)[2]), Tail(reps))

LiteralName(in) ==
  ResolveLiterally(in.template,
                   ReplacementTable(in.type, in.material, in.grade, in.limit, in.type,
                                    IF in.weaponType # <<>> THEN in.weaponType ELSE in.type))

\* the key column of the table is the claimed insertion order
TableOrder ==
  LET reps == ReplacementTable(<<>>, <<>>, <<>>, <<>>, <<>>, <<>>)
  IN [i \in 1..Len(reps) |-> reps[i][1]] =
       << Placeholder(<<"n","a","m","e">>), PMaterial, PGrade, GradeLimit,
          Placeholder(<<"a","m","m","o","_","t","y","p","e">>), PWeapon,
          Placeholder(<<"a","m","m","o","_","t","y","p","e",".","p","l","u","r","a","l">>),
          PWeapons >>

\* C22: the resolved name is the template with every occurrence of each
\* placeholder replaced by its value as literal text, placeholder after
\* placeholder in the order of the table, and resolving again from the same
\* input gives the same name.
C22_LiteralReplacement ==
  /\ TableOrder
  /\ \A n \in 1..Len(resolutions) :
       /\ resolutions[n] = LiteralName(tableInput)
       /\ resolutions[n] = resolutions[1]

(***************************************************************************)
(* Errors, keys and references.                                            *)
(***************************************************************************)
\* the step is a run of generate-ammo.mjs (or, after a failed one, a step that
\* leaves the same trace)
GenStep == runs' = runs + 1 /\ last'.cmd = "gen" /\ UNCHANGED mergeVars

\* the step is a run of merge-ammo.mjs (or, after a failed one, a step that
\* leaves the same trace)
MergeStep == runs' = runs + 1 /\ mergeLast'.cmd = "merge" /\ UNCHANGED <<output, genLog, minted>>

MalformedInput == \E f \in 1..Len(inputFiles) : IsMalformed(inputFiles[f])

\* C23: a run of generate-and-merge over a malformed output file, and a run
\* of the two-collection merge over a malformed input file, fails without
\* generating or merging a record and without writing its output file.
C23_MalformedInputHalts ==
  [][/\ (GenStep /\ IsMalformed(output)) =>
          /\ last'.status = "error"
          /\ output' = output
          /\ genLog' = <<>> /\ locals' = locals /\ minted' = minted
     /\ (MergeStep /\ MalformedInput) =>
          /\ mergeLast'.status = "error"
          /\ mergeOutput' = mergeOutput]_vars

\* both commands have failed on a malformed file, with everything else in order
C23_Witness ==
  /\ last.cmd = "gen" /\ last.status = "error"
  /\ IsMalformed(last.before) /\ GenArgsValid(last.args)
  /\ output = last.before
  /\ mergeLast = [cmd |-> "merge", status |-> "error"]
  /\ MalformedInput /\ \A f \in 1..Len(inputFiles) : inputFiles[f].exists
  /\ mergeOutput = File(<<OtherB>>)

BuildOk == last.cmd = "build" /\ last.status = "ok"

\* the item type has no folder, or its folder is in the folder index
FolderResolvable(type) ==
  \/ "folder" \notin DOMAIN ammoConfigs[type]
  \/ ammoConfigs[type].folder = <<>>
  \/ ammoConfigs[type].folder \in DOMAIN FolderMapOf(compendium)

\* the triples of the batch in generation order
BatchTriples(a) == [n \in 1..NumTriples(a) |-> TripleAt(a, n)]

ResolvableTriples(a) == SelectSeq(BatchTriples(a), LAMBDA tr : FolderResolvable(tr.type))

\* C24: a batch of build-ammo writes one record per triple whose folder
\* resolves, in generation order; the triples whose folder is missing from
\* the folder index are left out and stop nothing.
C24_MissingFolderSkipsRecord ==
  BuildOk =>
    LET expected == ResolvableTriples(last.args)
    IN /\ output.exists
       /\ Len(Out) = Len(expected)
       /\ \A i \in 1..Len(expected) :
            /\ Out[i].name = NameTable[<<expected[i].type, expected[i].material, expected[i].grade>>]
            /\ Out[i].folder = IF "folder" \in DOMAIN ammoConfigs[expected[i].type]
                               THEN FolderMapOf(compendium)[ammoConfigs[expected[i].type].folder]
                               ELSE Null

\* a batch whose first triple has no folder to go to and whose last triple
\* was generated, over an output file that held other records
C24_Witness ==
  /\ BuildOk
  /\ ~FolderResolvable(BatchTriples(last.args)[1].type)
  /\ FolderResolvable(BatchTriples(last.args)[NumTriples(last.args)].type)
  /\ Len(Out) > 0 /\ Len(Out) < NumTriples(last.args)
  /\ last.before.exists

\* the record's storage key is !items! or !folders! followed by its own _id
KeyMatchesId(record) ==
  /\ "_id" \in DOMAIN record
  /\ \/ IsItemRecord(record) /\ record._metadata.key = Key("!items!", record._id)
     \/ IsFolderRecord(record) /\ record._metadata.key = Key("!folders!", record._id)

\* the compendiumSource of an item names the item's own _id
SourceMatchesId(record) == record._stats.compendiumSource = <<"Item", record._id>>

\* C25: every item generated by generate-and-merge has the key !items! + _id
\* and a compendiumSource ending in its _id, every auto-created folder has
\* the key !folders! + _id, and when every record of the existing output has
\* a key that matches its _id, every record of the written output has one.
C25_KeysMatchIds ==
  GenOk =>
    /\ \A i \in 1..Len(genLog) :
         KeyMatchesId(genLog[i].item) /\ IsItemRecord(genLog[i].item)
           /\ SourceMatchesId(genLog[i].item)
    /\ \A i \in 1..Len(locals.compendiumData) :
         locals.compendiumData[i].name \in locals.newFolders /\ i > Len(compendium)
           => KeyMatchesId(locals.compendiumData[i]) /\ IsFolderRecord(locals.compendiumData[i])
    /\ (\A i \in 1..Len(Before) : KeyMatchesId(Before[i]))
         => \A i \in 1..Len(Out) : KeyMatchesId(Out[i])

\* a second run that gave an item of the output a new identifier and wrote a
\* folder it created
C25_Witness ==
  /\ GenOk /\ runs = 2
  /\ Len(Before) > 0 /\ \A i \in 1..Len(Before) : KeyMatchesId(Before[i])
  /\ \E i \in 1..Len(Before) : IsItemRecord(Before[i]) /\ Out[i]._id # Before[i]._id
  /\ \E i \in 1..Len(Out) : IsFolderRecord(Out[i])

\* the _id of every folder record of the list
FolderIds(records) ==
  {records[i]._id : i \in {j \in 1..Len(records) : IsFolderRecord(records[j])}}

\* every item of the list with a folder points at a folder record of the list
\* or of the compendium
FoldersResolved(records) ==
  \A i \in 1..Len(records) :
    (IsItemRecord(records[i]) /\ records[i].folder # Null)
      => records[i].folder \in FolderIds(records) \cup FolderIds(compendium)

\* C26: a run of generate-and-merge over an output that earlier runs wrote
\* (or over no output), in which every item's folder exists, writes an output
\* in which every item's folder exists.
C26_NoDanglingFolder ==
  [][(/\ last'.cmd = "gen" /\ last'.status = "ok" /\ runs' = runs + 1
      /\ \A i \in 1..Len(output.data) : KeyMatchesId(output.data[i])
      /\ FoldersResolved(output.data))
     => FoldersResolved(output'.data)]_vars

(***************************************************************************)
(* Agreement of the two slug functions, repeated packs, several earlier    *)
(* files.                                                                  *)
(***************************************************************************)
\* C27: for every name, toSlug of generate-ammo.mjs and toSlug of
\* build-ammo.mjs return the same slug.
C27_SlugFunctionsAgree ==
  slugged.script # "none" => toSlug(slugged.name) = toSlugBuild(slugged.name)

\* C28: packing the collection again into the store it was packed into, with
\* no put failing either time, leaves the store's key-value pairs as they
\* were after the first pack.
C28_PackIdempotent ==
  [][(/\ storeLast'.cmd = "pack" /\ runs' = runs + 1
      /\ packLog.ran /\ packLog.errors = 0
      /\ packLog'.ran /\ packLog'.errors = 0)
     => store'.data = store.data]_vars

\* how many items of `items` carry the slug
SlugCount(items, slug) ==
  Cardinality({i \in 1..Len(items) : HasSlug(items[i]) /\ SlugOf(items[i]) = slug})

\* the input file f holds an item with the slug
FileHasSlug(f, slug) ==
  \E i \in 1..Len(inputFiles[f].data) :
    HasSlug(inputFiles[f].data[i]) /\ SlugOf(inputFiles[f].data[i]) = slug

\* the last earlier file with the slug, and its last item with it
LaterFileItem(slug) ==
  LET f == CHOOSE g \in 1..(Len(inputFiles) - 1) :
             /\ FileHasSlug(g, slug)
             /\ \A h \in (g + 1)..(Len(inputFiles) - 1) : ~FileHasSlug(h, slug)
  IN LastWithSlug(inputFiles[f].data, slug)

\* C29: of the earlier files' items with one slug the item of the later file
\* is the one used, in the place of the base item with the slug (up to
\* createdTime) or, when the base has none, after the base positions; and a
\* slug that the rightmost file holds at most once occurs exactly once in the
\* output.
C29_LaterEarlierFileWins ==
  MergeOk =>
    /\ \A s \in SlugsIn(EarlierItems) :
         IF s \in SlugsIn(BaseItems)
         THEN \E i \in 1..Len(BaseItems) :
                /\ FirstOfSlug(BaseItems, i) /\ SlugOf(BaseItems[i]) = s
                /\ WithoutCreatedTime(MergedItems[i]) = WithoutCreatedTime(LaterFileItem(s))
         ELSE \E j \in (Len(BaseItems) + 1)..Len(MergedItems) :
                MergedItems[j] = LaterFileItem(s)
    /\ \A s \in SlugsIn(EarlierItems) \cup SlugsIn(BaseItems) :
         SlugCount(BaseItems, s) <= 1 => SlugCount(MergedItems, s) = 1

\* C29 witness: three input files, the two earlier ones with different items
\* of one slug, merged
C29_Witness ==
  /\ MergeOk
  /\ Len(inputFiles) = 3
  /\ \E s \in SlugsIn(EarlierItems) :
       /\ FileHasSlug(1, s) /\ FileHasSlug(2, s)
       /\ inputFiles[1].data # inputFiles[2].data
       /\ \E j \in 1..Len(MergedItems) :
            WithoutCreatedTime(MergedItems[j]) = WithoutCreatedTime(LaterFileItem(s))

(***************************************************************************)
(* The hooks of the module                                                 *)
(***************************************************************************)
\* every write of the module sets the load flag to true
WritesLoadTrue(log) ==
  \A i \in 1..Len(log) : log[i].kind = "write" => log[i].value = TRUE

\* every write is followed at once by a call of game.settings.set from the
\* same handler
WritesSaved(log) ==
  \A i \in 1..Len(log) :
    log[i].kind = "write"
      => i < Len(log) /\ log[i + 1].kind = "save" /\ log[i + 1].by = log[i].by

\* enableOurPack returns true exactly when the entry was there, and the entry
\* then has load = true
ReturnsEntry(log) ==
  \A i \in 1..Len(log) :
    log[i].kind = "return"
      => /\ log[i].value = log[i].had
         /\ log[i].value = TRUE => log[i].loaded

\* the host called 'ready' or 'renderCompendiumDirectory'
GuardedHook ==
  /\ hooks'.count = hooks.count + 1
  /\ hooks'.last \in {"ready", "renderCompendiumDirectory"}

\* C30: whatever the order of the hooks and of the delayed callbacks, the
\* module writes no load flag other than true, calls the save of the settings
\* after each of its writes, leaves the game, the log and the timers as they
\* are in the handlers of 'ready' and 'renderCompendiumDirectory' when the
\* system is not pf2e, and enableOurPack returns true exactly when the pack had
\* its entry, which then has load = true.
C30_HooksEnablePack ==
  [][/\ WritesLoadTrue(hookLog')
     /\ WritesSaved(hookLog')
     /\ ReturnsEntry(hookLog')
     /\ (GuardedHook /\ game.system # "pf2e") => UNCHANGED <<game, hookLog, timers>>]_vars

\* C30 witness: 'ready' added the entry, the host then took the load flag
\* away or the entry with it, and both delayed callbacks wrote after that,
\* enableOurPack returning true and, another time, false
C30_Witness ==
  /\ \E i \in 1..Len(hookLog) : hookLog[i].kind = "write" /\ hookLog[i].by = "ready"
  /\ \E i \in 1..Len(hookLog) : hookLog[i].kind = "write" /\ hookLog[i].by = "directory"
  /\ \E i \in 1..Len(hookLog) : hookLog[i].kind = "return" /\ hookLog[i].value = TRUE
  /\ \E i \in 1..Len(hookLog) : hookLog[i].kind = "save" /\ hookLog[i].value = FALSE
  /\ timers = <<>>

=============================================================================
